---- MODULE Spec2Model ----
(***************************************************************************)
(* A model of the fbarc crawl engine (src/fbarc.py): the definition        *)
(* compiler, discovery of connected nodes, the breadth-first scheduler     *)
(* with request batching, resume by replay of the output file, the         *)
(* pagination resolver and the transport's retry policy.                   *)
(***************************************************************************)
EXTENDS Integers, Sequences, FiniteSets, TLC

(***************************************************************************)
(* JSON values.  A dict is Obj(kv) with kv a function from keys to values, *)
(* a list is Arr(s) with s a sequence of values, anything else is Val(x).  *)
(***************************************************************************)
Obj(kv) == [t |-> "dict", kv |-> kv]
Arr(s) == [t |-> "list", it |-> s]
Val(x) == [t |-> "val", v |-> x]
NoKeys == [k \in {} |-> Val(0)]
HasKey(d, k) == d.t = "dict" /\ k \in DOMAIN d.kv

Range(s) == {s[i] : i \in DOMAIN s}

(***************************************************************************)
(* Definitions.  The raw definition of a type is the object a definition   *)
(* module exports (src/definitions/comment.py is one): node_batch_size,    *)
(* edge_size and a map from field name to its options.  An option that is  *)
(* absent from the Python dict reads as its .get() default here.           *)
(***************************************************************************)
Field == [omit |-> FALSE, default |-> FALSE, edge_type |-> "",
          follow_edge |-> TRUE, omit_on_error |-> 0]

RawDefinitions ==
  [page |->
     [node_batch_size |-> 2, edge_size |-> 3,
      fields |->
        [about  |-> Field,
         feed   |-> [Field EXCEPT !.edge_type = "post"],
         hidden |-> [Field EXCEPT !.omit = TRUE],
         name   |-> [Field EXCEPT !.default = TRUE]]],
   post |->
     [node_batch_size |-> 2, edge_size |-> 2,
      fields |->
        [attachment |-> [Field EXCEPT !.omit_on_error = 1],
         can_hide   |-> [Field EXCEPT !.omit = TRUE],
         comments   |-> [Field EXCEPT !.edge_type = "post"],
         from       |-> [Field EXCEPT !.edge_type = "page", !.default = TRUE],
         message    |-> [Field EXCEPT !.default = TRUE],
         object     |-> [Field EXCEPT !.edge_type = "page", !.follow_edge = FALSE,
                                      !.omit_on_error = 10],
         parent     |-> [Field EXCEPT !.edge_type = "post", !.omit_on_error = 1]]],
   album |->
     [node_batch_size |-> 60, edge_size |-> 2,
      fields |->
        [feed |-> [Field EXCEPT !.edge_type = "post"],
         name |-> [Field EXCEPT !.default = TRUE]]],
   share |->
     [node_batch_size |-> 2, edge_size |-> 2,
      fields |->
        [comments |-> [Field EXCEPT !.edge_type = "post"],
         message  |-> [Field EXCEPT !.default = TRUE],
         object   |-> [Field EXCEPT !.edge_type = "post", !.default = TRUE,
                                    !.follow_edge = FALSE]]],
   thread |->
     [node_batch_size |-> 2, edge_size |-> 2,
      fields |->
        [message |-> [Field EXCEPT !.default = TRUE],
         parent  |-> [Field EXCEPT !.edge_type = "thread", !.default = TRUE]]],
   ping |->
     [node_batch_size |-> 2, edge_size |-> 2,
      fields |->
        [from |-> [Field EXCEPT !.edge_type = "pong", !.default = TRUE]]],
   pong |->
     [node_batch_size |-> 2, edge_size |-> 2,
      fields |->
        [from |-> [Field EXCEPT !.edge_type = "ping", !.default = TRUE]]]]

\* The definitions of the graphs that are crawled; album, whose
\* node_batch_size is above PAGE_BATCH_SIZE, is fetched but not crawled, and
\* for share (a default edge that is not followed), thread (a default edge
\* to its own type) and ping and pong (default edges to each other) queries
\* are built and fragments walked.
DefinitionNames == {"page", "post"}

\* Every field name, in the order Python's sorted() gives.
SortedNames == <<"about", "attachment", "can_hide", "comments", "feed", "from",
                 "hidden", "message", "name", "object", "parent">>

\* tuple(sorted(name_set))
Sorted(name_set) == SelectSeq(SortedNames, LAMBDA n : n \in name_set)

\* Definition.__init__ on the 'fields' of a definition object: the four
\* tuples and the dict from error code to the names omitted on it.
Kept_All(map) == DOMAIN map
Kept(map) == {n \in DOMAIN map : ~map[n].omit}
IsEdge(map, n) == map[n].edge_type # ""
Definition(map) ==
  [definition_map |-> map,
   default_fields |-> Sorted({n \in Kept(map) : ~IsEdge(map, n) /\ map[n].default}),
   fields |-> Sorted({n \in Kept(map) : ~IsEdge(map, n) /\ ~map[n].default}),
   default_edges |-> Sorted({n \in Kept(map) : IsEdge(map, n) /\ map[n].default}),
   edges |-> Sorted({n \in Kept(map) : IsEdge(map, n) /\ ~map[n].default}),
   omit_on_error_fields_by_error_code |->
     [code \in {map[n].omit_on_error : n \in Kept(map)} \ {0} |->
        {n \in Kept(map) : map[n].omit_on_error = code}]]

\* Fbarc.get_definition: the Definition of a name is made once and kept.
definitions == [dn \in DOMAIN RawDefinitions |-> Definition(RawDefinitions[dn].fields)]
get_definition(dn) == definitions[dn]

definition_map(dn) == get_definition(dn).definition_map
node_batch_size(dn) == RawDefinitions[dn].node_batch_size
edge_size(dn) == RawDefinitions[dn].edge_size
default_fields(dn) == get_definition(dn).default_fields
fields(dn) == get_definition(dn).fields
default_edges(dn) == get_definition(dn).default_edges
edges(dn) == get_definition(dn).edges
omit_on_error_codes(dn) == DOMAIN get_definition(dn).omit_on_error_fields_by_error_code
omit_on_error_fields_by_error_code(dn, code) ==
  IF code \in omit_on_error_codes(dn)
  THEN get_definition(dn).omit_on_error_fields_by_error_code[code]
  ELSE {}

get_edge_type(dn, edge_name) == definition_map(dn)[edge_name].edge_type
should_follow_edge_Always(dn, edge_name) == TRUE
should_follow_edge(dn, edge_name) == definition_map(dn)[edge_name].follow_edge

\* The edges a query or a discovery walk goes through: the default edges and,
\* unless default_only, the other edges (fbarc.py 752-754, 773-775).
EdgeList(dn, default_only) ==
  IF default_only THEN default_edges(dn) ELSE default_edges(dn) \o edges(dn)

(***************************************************************************)
(* find_connected_nodes: the (node id, definition name) pairs found in a   *)
(* graph fragment, in the order the code appends them.                     *)
(***************************************************************************)
RECURSIVE find_connected_nodes(_, _, _)
RECURSIVE ConnectedOfEdges(_, _, _)
RECURSIVE ConnectedOfData(_, _)

ConnectedOfData(edge_type, nodes) ==
  IF nodes = <<>> THEN <<>>
  ELSE <<<<Head(nodes).kv["id"].v, edge_type>>>>
       \o find_connected_nodes(edge_type, Head(nodes), TRUE)
       \o ConnectedOfData(edge_type, Tail(nodes))

ConnectedOfEdges(dn, graph_fragment, edge_list) ==
  IF edge_list = <<>> THEN <<>>
  ELSE LET edge == Head(edge_list)
           edge_type == get_edge_type(dn, edge)
           here ==
             IF should_follow_edge(dn, edge) /\ HasKey(graph_fragment, edge)
             THEN IF HasKey(graph_fragment.kv[edge], "data")
                  THEN ConnectedOfData(edge_type, graph_fragment.kv[edge].kv["data"].it)
                  ELSE ConnectedOfData(edge_type, <<graph_fragment.kv[edge]>>)
             ELSE <<>>
       IN here \o ConnectedOfEdges(dn, graph_fragment, Tail(edge_list))

find_connected_nodes(dn, graph_fragment, default_only) ==
  ConnectedOfEdges(dn, graph_fragment, EdgeList(dn, default_only))

(***************************************************************************)
(* The remote graph.  A graph gives every node id its declared type (kind) *)
(* and the targets of its edges: feed and comments are collections, from,  *)
(* object and parent are single nodes (0: the node has none).              *)
(***************************************************************************)
Node(kind) == [kind |-> kind, feed |-> <<>>, comments |-> <<>>,
               from |-> 0, object |-> 0, parent |-> 0]
CollectionEdges == {"feed", "comments"}

\* A page with five posts that all name it as their author.
GraphFan ==
  [i \in 1..6 |->
     IF i = 1 THEN [Node("page") EXCEPT !.feed = <<2, 3, 4, 5, 6>>]
     ELSE [Node("post") EXCEPT !.from = 1]]
\* Nodes reachable through several parents, at several levels and as two types.
GraphDiamond ==
  [i \in 1..6 |->
     CASE i = 1 -> [Node("page") EXCEPT !.feed = <<2, 3>>]
       [] i = 2 -> [Node("post") EXCEPT !.comments = <<4>>, !.from = 5]
       [] i = 3 -> [Node("post") EXCEPT !.comments = <<4, 2>>, !.parent = 2]
       [] i = 4 -> [Node("post") EXCEPT !.comments = <<1>>, !.object = 6]
       [] i = 5 -> [Node("page") EXCEPT !.feed = <<4, 6>>]
       [] OTHER -> Node("post")]
\* A chain five levels deep.
GraphChain ==
  [i \in 1..6 |->
     CASE i = 1 -> [Node("page") EXCEPT !.feed = <<2>>]
       [] i = 2 -> [Node("post") EXCEPT !.comments = <<3>>]
       [] i = 3 -> [Node("post") EXCEPT !.comments = <<4>>, !.from = 6]
       [] i = 4 -> [Node("post") EXCEPT !.comments = <<5>>, !.parent = 3]
       [] i = 5 -> Node("post")
       [] OTHER -> [Node("page") EXCEPT !.feed = <<5>>]]
\* A post as the root.
GraphThread ==
  [i \in 1..6 |->
     CASE i = 1 -> [Node("post") EXCEPT !.comments = <<2, 3, 4>>]
       [] i = 2 -> [Node("post") EXCEPT !.from = 5]
       [] i = 3 -> [Node("post") EXCEPT !.from = 5, !.parent = 2]
       [] i = 4 -> [Node("post") EXCEPT !.comments = <<2, 6>>]
       [] i = 5 -> [Node("page") EXCEPT !.feed = <<1, 6>>]
       [] OTHER -> Node("post")]
Graphs == <<GraphFan, GraphDiamond, GraphChain, GraphThread>>

\* The edges the query built by _prepare_field_param asks for: those of
\* EdgeList that the omitted error code does not strip (fbarc.py 740, 752-761).
QueryEdges(dn, default_only, omit_fields_for_error) ==
  SelectSeq(EdgeList(dn, default_only),
            LAMBDA e : e \notin omit_on_error_fields_by_error_code(dn, omit_fields_for_error))

\* The record the remote returns for that query, every page of every
\* collection merged in: the id, metadata{type} when asked for, and each edge
\* asked for that the node has, its nodes expanded by the nested
\* defaults-only query of the edge's type.
RECURSIVE RemoteNode(_, _, _, _, _)
RemoteNode(g, id, dn, default_only, omit_fields_for_error) ==
  LET asked == Range(QueryEdges(dn, default_only, omit_fields_for_error))
      has == {e \in asked : IF e \in CollectionEdges THEN g[id][e] # <<>> ELSE g[id][e] # 0}
      sub(e, target) == RemoteNode(g, target, get_edge_type(dn, e), TRUE, 0)
      meta == IF default_only THEN NoKeys
              ELSE "metadata" :> Obj("type" :> Val(g[id].kind))
  IN Obj(("id" :> Val(id)) @@ meta @@
         [e \in has |->
            IF e \in CollectionEdges
            THEN Obj("data" :> Arr([i \in 1..Len(g[id][e]) |-> sub(e, g[id][e][i])]))
            ELSE sub(e, g[id][e])])

\* The records of every graph, computed once: Record(g, ...) is
\* RemoteNode(Graphs[g], ...).
OmitCodes == {0} \cup UNION {omit_on_error_codes(dn) : dn \in DefinitionNames}
RecordTable ==
  [g \in DOMAIN Graphs |->
     [id \in DOMAIN Graphs[g] |->
        [dn \in DefinitionNames |->
           [code \in OmitCodes |-> RemoteNode(Graphs[g], id, dn, FALSE, code)]]]]
Record(g, id, dn, omit_fields_for_error) == RecordTable[g][id][dn][omit_fields_for_error]

(***************************************************************************)
(* What one logical request gives its caller once the transport is done    *)
(* with it (retries included): a body, an FbException with its code and    *)
(* subcode, or another exception (HTTPError, ConnectionError).             *)
(***************************************************************************)
Ok == [ok |-> TRUE, fb |-> FALSE, code |-> 0, subcode |-> 0]
FbError(code, subcode) == [ok |-> FALSE, fb |-> TRUE, code |-> code, subcode |-> subcode]
OtherError == [ok |-> FALSE, fb |-> FALSE, code |-> 0, subcode |-> 0]
Errors == {FbError(1, 0), FbError(10, 0), FbError(100, 33), FbError(2, 0), OtherError}
Outcomes == {Ok} \cup Errors

Return(items) == [ok |-> TRUE, items |-> items, e |-> Ok]
Raise(e) == [ok |-> FALSE, items |-> <<>>, e |-> e]

\* get_node: r1 is the outcome of the request and its pagination, r2 that of
\* the retry with the fields of r1's error code omitted.
get_node(g, node_id, dn, r1, r2) ==
  IF r1.ok THEN Return(<<<<node_id, Record(g, node_id, dn, 0)>>>>)
  ELSE IF r1.fb /\ r1.code \in omit_on_error_codes(dn)
       THEN IF r2.ok
            THEN Return(<<<<node_id, Record(g, node_id, dn, r1.code)>>>>)
            ELSE Raise(r2)
       ELSE Raise(r1)

\* Every result get_node can have for a node, computed once.
GetNodeTable ==
  [g \in DOMAIN Graphs |->
     [node_id \in DOMAIN Graphs[g] |->
        [dn \in DefinitionNames |->
           {get_node(g, node_id, dn, r1, r2) : r1 \in Outcomes, r2 \in Outcomes}]]]
GetNodeResults(g, node_id, dn) == GetNodeTable[g][node_id][dn]

\* dict[node_id] = node_graph on a dict kept as its items in insertion order.
SetItem(items, node_id, node_graph) ==
  IF \E i \in DOMAIN items : items[i][1] = node_id
  THEN [i \in DOMAIN items |->
          IF items[i][1] = node_id THEN <<node_id, node_graph>> ELSE items[i]]
  ELSE Append(items, <<node_id, node_graph>>)

\* The loop of get_node_batch that gets one node at a time (fbarc.py 603-605):
\* per[i] is what get_node gives for node_ids[i]; the first exception leaves.
RECURSIVE OneAtATime(_, _, _, _)
OneAtATime(node_ids, per, i, items) ==
  IF i > Len(node_ids) THEN Return(items)
  ELSE IF ~per[i].ok THEN per[i]
       ELSE OneAtATime(node_ids, per, i + 1, SetItem(items, node_ids[i], per[i].items[1][2]))

\* get_node_batch: r is the outcome of the request and its pagination,
\* missing the ids the response leaves out, after_response whether the
\* exception came after the response was stored in nodes_graph_dict.
get_node_batch(g, node_ids, dn, r, missing, after_response, per) ==
  LET got == SelectSeq(node_ids, LAMBDA n : n \notin missing)
      response == [i \in 1..Len(got) |-> <<got[i], Record(g, got[i], dn, 0)>>]
  IN IF r.ok THEN Return(response)
     ELSE IF r.fb /\ (r.code = 1 \/ r.code \in omit_on_error_codes(dn))
          THEN OneAtATime(node_ids, per, 1, IF after_response THEN response ELSE <<>>)
          ELSE Raise(r)

\* Every choice of what get_node gives for each id of a batch.
RECURSIVE PerNode(_, _, _, _)
PerNode(g, node_ids, dn, i) ==
  IF i > Len(node_ids) THEN {<<>>}
  ELSE {<<x>> \o rest : x \in GetNodeResults(g, node_ids[i], dn),
                        rest \in PerNode(g, node_ids, dn, i + 1)}

\* fbarc.py 486-490: a batch of one id goes through get_node, a longer one
\* through get_node_batch.
FetchPath_Batch(node_ids) ==
  "get_node_batch"
FetchPath(node_ids) ==
  IF Len(node_ids) = 1 THEN "get_node" ELSE "get_node_batch"

\* Every result the fetch of a popped batch can have.
FetchResultsOf(g, node_ids, dn) ==
  IF FetchPath(node_ids) = "get_node" THEN GetNodeResults(g, node_ids[1], dn)
  ELSE LET degrading == {r \in Errors : r.fb /\ (r.code = 1 \/ r.code \in omit_on_error_codes(dn))}
           absent == {{}} \cup {{n} : n \in Range(node_ids)}
       IN {get_node_batch(g, node_ids, dn, r, missing, FALSE, <<>>) :
             r \in Outcomes \ degrading, missing \in absent}
          \cup
          {get_node_batch(g, node_ids, dn, r, missing, after_response, per) :
             r \in degrading, missing \in absent, after_response \in BOOLEAN,
             per \in PerNode(g, node_ids, dn, 1)}

\* The same, computed once for every batch a queue can give.
Batches(g, dn) ==
  UNION {{b \in [1..n -> DOMAIN Graphs[g]] : \A i, j \in 1..n : b[i] = b[j] => i = j} :
           n \in 1..node_batch_size(dn)}
FetchTable ==
  [g \in DOMAIN Graphs |->
     [dn \in DefinitionNames |->
        [node_ids \in Batches(g, dn) |-> FetchResultsOf(g, node_ids, dn)]]]
FetchResults(g, node_ids, dn) == FetchTable[g][dn][node_ids]

(***************************************************************************)
(* node_queue_iter: one next() of the generator on the queue as it is then.*)
(* None is "" for a definition name and 0 for a level.                     *)
(***************************************************************************)
\* Mutant of QueueIter: the level of the next task is not compared.
RECURSIVE QueueIter_NoLevel(_, _)
QueueIter_NoLevel(node_queue, node_ids) ==
  LET pop == Head(node_queue)
      rest == Tail(node_queue)
      ids == Append(node_ids, pop[1])
      peak_definition_name == IF rest # <<>> THEN rest[1][2] ELSE ""
  IN IF peak_definition_name # pop[2] \/ Len(ids) = node_batch_size(pop[2])
     THEN [node_ids |-> ids, definition_name |-> pop[2], level |-> pop[3],
           node_queue |-> rest]
     ELSE QueueIter_NoLevel(rest, ids)

RECURSIVE QueueIter(_, _)
QueueIter(node_queue, node_ids) ==
  LET pop == Head(node_queue)
      rest == Tail(node_queue)
      ids == Append(node_ids, pop[1])
      peak_definition_name == IF rest # <<>> THEN rest[1][2] ELSE ""
      peak_level == IF rest # <<>> THEN rest[1][3] ELSE 0
  IN IF peak_definition_name # pop[2] \/ peak_level # pop[3]
        \/ Len(ids) = node_batch_size(pop[2])
     THEN [node_ids |-> ids, definition_name |-> pop[2], level |-> pop[3],
           node_queue |-> rest]
     ELSE QueueIter(rest, ids)
node_queue_iter(node_queue) == QueueIter(node_queue, <<>>)

(***************************************************************************)
(* Discovery: the loop over the connected nodes of one record              *)
(* (fbarc.py 497-505 in _get_nodes, 972-982 in resume).  q holds the       *)
(* queue, the counter and the set of queued nodes; appended lists every    *)
(* append to the queue with the node whose record it was found in.         *)
(***************************************************************************)
Task(node_id, dn, level) == <<node_id, dn, level>>
QueuedIds(node_queue) == {node_queue[i][1] : i \in DOMAIN node_queue}

\* Mutant of ShouldDiscover: the level test off by one.
ShouldDiscover_OffByOne(lv, level) == lv = 0 \/ level <= lv

\* levels == 0 or level < levels
ShouldDiscover(lv, level) == lv = 0 \/ level < lv

\* Mutants of ShouldQueue: the check of queued_nodes left out, the check of
\* the exclusions left out.
ShouldQueue_NoDedup(connected_node_id, connected_definition_name, queued, exclude) ==
  connected_definition_name \notin exclude
ShouldQueue_NoExclude(connected_node_id, connected_definition_name, queued, exclude) ==
  connected_node_id \notin queued

\* connected_node_id not in queued_nodes and (connected_definition_name is
\* None or connected_definition_name not in exclude_definition_names); no
\* edge of a definition has None as its type.
ShouldQueue(connected_node_id, connected_definition_name, queued, exclude) ==
  connected_node_id \notin queued /\ connected_definition_name \notin exclude

\* Mutant of QueueConnected: the task is put at the front of the queue.
RECURSIVE QueueConnected_Front(_, _, _, _, _, _)
QueueConnected_Front(connected_nodes, q, parent, level, exclude, replay) ==
  IF connected_nodes = <<>> THEN q
  ELSE LET c == Head(connected_nodes)
           add == ShouldQueue(c[1], c[2], q.queued_nodes, exclude)
                  /\ (replay => c[1] \notin QueuedIds(q.node_queue))
           q2 == IF add
                 THEN [node_queue |-> <<Task(c[1], c[2], level + 1)>> \o q.node_queue,
                       node_counter |-> [q.node_counter EXCEPT ![c[2]] = @ + 1],
                       queued_nodes |-> q.queued_nodes \cup {c[1]},
                       appended |-> Append(q.appended, <<Task(c[1], c[2], level + 1), parent>>)]
                 ELSE q
       IN QueueConnected_Front(Tail(connected_nodes), q2, parent, level, exclude, replay)

\* Mutant of QueueConnected: the task gets the level of the task whose record
\* it was found in.
RECURSIVE QueueConnected_SameLevel(_, _, _, _, _, _)
QueueConnected_SameLevel(connected_nodes, q, parent, level, exclude, replay) ==
  IF connected_nodes = <<>> THEN q
  ELSE LET c == Head(connected_nodes)
           add == ShouldQueue(c[1], c[2], q.queued_nodes, exclude)
                  /\ (replay => c[1] \notin QueuedIds(q.node_queue))
           q2 == IF add
                 THEN [node_queue |-> Append(q.node_queue, Task(c[1], c[2], level)),
                       node_counter |-> [q.node_counter EXCEPT ![c[2]] = @ + 1],
                       queued_nodes |-> q.queued_nodes \cup {c[1]},
                       appended |-> Append(q.appended, <<Task(c[1], c[2], level), parent>>)]
                 ELSE q
       IN QueueConnected_SameLevel(Tail(connected_nodes), q2, parent, level, exclude, replay)

RECURSIVE QueueConnected(_, _, _, _, _, _)
QueueConnected(connected_nodes, q, parent, level, exclude, replay) ==
  IF connected_nodes = <<>> THEN q
  ELSE LET c == Head(connected_nodes)
           add == ShouldQueue(c[1], c[2], q.queued_nodes, exclude)
                  /\ (replay => c[1] \notin QueuedIds(q.node_queue))
           q2 == IF add
                 THEN [node_queue |-> Append(q.node_queue, Task(c[1], c[2], level + 1)),
                       node_counter |-> [q.node_counter EXCEPT ![c[2]] = @ + 1],
                       queued_nodes |-> q.queued_nodes \cup {c[1]},
                       appended |-> Append(q.appended, <<Task(c[1], c[2], level + 1), parent>>)]
                 ELSE q
       IN QueueConnected(Tail(connected_nodes), q2, parent, level, exclude, replay)

\* Mutant of Discovered: the record is yielded before its discovery.
Discovered_Later(q, dn, level, node_id, node_graph, lv, exclude, replay) == q

\* The body of the loop over the records of a batch, up to the yield.
Discovered(q, dn, level, node_id, node_graph, lv, exclude, replay) ==
  IF ShouldDiscover(lv, level)
  THEN QueueConnected(find_connected_nodes(dn, node_graph, FALSE), q, node_id, level,
                      exclude, replay)
  ELSE q

(***************************************************************************)
(* resume: the replay of the output file (fbarc.py 953-985).  The ordered  *)
(* dict node_queue_dict is kept as the sequence of its values.             *)
(***************************************************************************)
NoCount == [dn \in DefinitionNames |-> 0]
\* Mutant of Remove: the oldest pending task is popped, not the task of the id.
Remove_First(node_queue, node_id) == Tail(node_queue)
Remove(node_queue, node_id) == SelectSeq(node_queue, LAMBDA task : task[1] # node_id)
TaskOf(node_queue, node_id) ==
  node_queue[CHOOSE i \in DOMAIN node_queue : node_queue[i][1] = node_id]

RECURSIVE Replay(_, _, _, _, _)
Replay(lines, count, q, lv, exclude) ==
  IF count >= Len(lines) THEN q
  ELSE LET node_graph == lines[count + 1]
           node_id == node_graph.kv["id"].v
           root_name == node_graph.kv["metadata"].kv["type"].v
           q1 == IF count = 0
                 THEN [node_queue |-> <<Task(node_id, root_name, 1)>>,
                       node_counter |-> [q.node_counter EXCEPT ![root_name] = @ + 1],
                       queued_nodes |-> q.queued_nodes \cup {node_id},
                       appended |-> <<<<Task(node_id, root_name, 1), 0>>>>]
                 ELSE q
           q2 == IF node_id \in QueuedIds(q1.node_queue)
                 THEN LET task == TaskOf(q1.node_queue, node_id)
                          popped == [q1 EXCEPT !.node_queue = Remove(@, node_id),
                                               !.node_counter[task[2]] = @ - 1]
                      IN Discovered(popped, task[2], task[3], node_id, node_graph, lv,
                                    exclude, TRUE)
                 ELSE q1
       IN Replay(lines, count + 1, q2, lv, exclude)

\* Mutant of Replayed: only the first line of the file is replayed.
Replayed_First(lines, lv, exclude) ==
  Replay(IF lines = <<>> THEN lines ELSE <<lines[1]>>, 0,
         [node_queue |-> <<>>, node_counter |-> NoCount,
          queued_nodes |-> {}, appended |-> <<>>], lv, exclude)

Replayed(lines, lv, exclude) ==
  Replay(lines, 0, [node_queue |-> <<>>, node_counter |-> NoCount,
                    queued_nodes |-> {}, appended |-> <<>>], lv, exclude)

(***************************************************************************)
(* The state: a crawl, one logical request of the transport, and one fetch *)
(* of nodes with its pagination.                                           *)
(***************************************************************************)
VARIABLES
  graph,                     \* the remote graph of the run, an index of Graphs
  levels,                    \* the levels argument
  exclude_definition_names,  \* the exclude argument
  root_definition_name,      \* the definition get_nodes was called with
  node_queue,                \* deque of (node id, definition name, level)
  node_counter,              \* Counter of queued nodes by definition name
  queued_nodes,              \* ids that have ever been queued
  pc,                        \* where _get_nodes is
  batch,                     \* the batch popped last
  items,                     \* node_graph_dict.items() still to be looped over
  node_id,                   \* the loop variable of _get_nodes, 0 while unbound
  node_graph,                \* the record of the loop, Val(0) while unbound
  file,                      \* the lines of the JSON output file
  error,                     \* the exception that ended the run, "" if none
  raised,                    \* what the last fetch raised, Ok if nothing
  appended,                  \* history: every append to the queue, with its parent
  batches,                   \* history: every batch node_queue_iter yielded
  dropped,                   \* history: tasks popped that got no record
  replayed,                  \* history: ids whose task the replay of resume resolved
  resumes                    \* how many times the run was resumed

crawl_vars == <<graph, levels, exclude_definition_names, root_definition_name,
                node_queue, node_counter, queued_nodes, pc, batch, items, node_id,
                node_graph, file, error, raised, appended, batches, dropped,
                replayed, resumes>>

\* One logical request through _perform_http_get or _perform_http_post.
VARIABLES
  http_method,               \* "get" or "post", "" when there is no request
  http_pc,                   \* "call", "returned", "raised", or "idle"
  try_count,                 \* the try_count argument of the call to come
  calls,                     \* how often requests.get / requests.post was called
  response,                  \* what the last call gave
  http_error,                \* the exception that left the request
  sleeps,                    \* the time.sleep calls between the tries
  only_503,                  \* history: every response so far had status 503
  failed                     \* history: the tries that failed, by exception type

\* The rate limit of the transport.  Time is in seconds; of last_get the
\* model keeps its age, the seconds gone by since it was set.
VARIABLES
  delay_secs,                \* the delay_secs the Fbarc was made with
  last_get_age,              \* now - last_get, None while last_get is None
  gap                        \* history: last_get as just set minus the last_get
                             \* before it, None at the first call

http_vars == <<http_method, http_pc, try_count, calls, response, http_error, sleeps,
               only_503, failed, delay_secs, last_get_age, gap>>

\* One call of get_node or get_node_batch, with its pagination.
VARIABLES
  pg_node_ids,               \* the node_ids of the call
  pg_definition_name,        \* the definition_name of the call
  pg_mode,                   \* "get_node", "get_node_batch" or "one_at_a_time"
  pg_turn,                   \* the index in node_ids of the node get_node gets
  pg_omit,                   \* omit_fields_for_error of get_node, 0 for False
  nodes_graph_dict,          \* the dict of get_node_batch, or the result
  pg_node_graph,             \* node_graph of get_node
  paging_queue,              \* deque of pending pages
  pages,                     \* get_page_batch: the pages still to loop over
  new_pages,                 \* get_page_batch: the pages found so far
  pg_pc,                     \* "request", "drain", "pages", "returned", "raised"
  pg_error,                  \* the exception that left the call
  received,                  \* history: the answers the records come from
  lost,                      \* history: the pages ignored, of the records in work
  merged,                    \* history: the pages merged, of the records in work
  page_batches,              \* history: the size of every combined page request
  get_page_calls,            \* history: how often get_page was called
  pg_log                     \* history: the calls of get_node and the exceptions
                             \* that left a try block, in order

paging_vars == <<pg_node_ids, pg_definition_name, pg_mode, pg_turn, pg_omit,
                 nodes_graph_dict, pg_node_graph, paging_queue, pages, new_pages,
                 pg_pc, pg_error, received, lost, merged, page_batches,
                 get_page_calls, pg_log>>

\* One call of CsvGraphOutput.output_graph on a fresh CsvGraphOutput.
VARIABLES
  csv_graph,                 \* the graph argument
  csv_fields,                \* the csv_fields of the definition of the graph
  csv_pc,                    \* "call", "written", "raised", or "idle"
  csv_fieldnames,            \* the fieldnames the DictWriter was made with
  csv_row                    \* the row handed to writerow

csv_vars == <<csv_graph, csv_fields, csv_pc, csv_fieldnames, csv_row>>

\* One call of Definition, of _prepare_node_request or of
\* find_connected_nodes.
VARIABLES
  fn_name,                   \* the function called, "" when there is no call
  fn_args,                   \* its arguments
  fn_pc,                     \* "call", "returned", "raised", or "idle"
  fn_value                   \* what it returned

fn_vars == <<fn_name, fn_args, fn_pc, fn_value>>

(***************************************************************************)
(* Transport and retry: raise_for_fb_exception, _perform_http_get and      *)
(* _perform_http_post.                                                     *)
(***************************************************************************)
get_too_much_data_errors_limit == 4
get_errors_limit == 10
get_error_delay_secs == 30

\* The body of a response: text that is no JSON, a JSON document without an
\* 'error' member, or the Graph API's error document.
NoError == [code |-> 0, error_subcode |-> 0, is_transient |-> FALSE]
Text == [json |-> FALSE, has_error |-> FALSE, error |-> NoError]
Json == [json |-> TRUE, has_error |-> FALSE, error |-> NoError]
ErrorJson(code, subcode, transient) ==
  [json |-> TRUE, has_error |-> TRUE,
   error |-> [code |-> code, error_subcode |-> subcode, is_transient |-> transient]]

\* What requests.get / requests.post gives: a response, or ConnectionError.
Response(status_code, body) ==
  [connected |-> TRUE, status_code |-> status_code, body |-> body]
NoConnection == [connected |-> FALSE, status_code |-> 0, body |-> Text]
NoResponse == [connected |-> TRUE, status_code |-> 0, body |-> Text]
ErrorStatusCodes == {400, 408, 500, 503, 504}
ErrorBodies ==
  {ErrorJson(1, 0, FALSE), ErrorJson(100, 33, FALSE), ErrorJson(2, 0, TRUE),
   ErrorJson(190, 0, FALSE)}
\* A response with status 200 carries the JSON document that was asked for.
Responses ==
  {NoConnection, Response(200, Json)}
    \cup {Response(s, b) : s \in ErrorStatusCodes, b \in {Text, Json} \cup ErrorBodies}

Exception(type, status_code, e) ==
  [type |-> type, status_code |-> status_code, code |-> e.code,
   subcode |-> e.error_subcode, is_transient |-> e.is_transient]
NoException == Exception("", 0, NoError)
ConnectionError == Exception("ConnectionError", 0, NoError)
HTTPError(r) == Exception("HTTPError", r.status_code, NoError)
\* fbarc.py 1032-1039: a document without 'error' makes __init__ raise KeyError.
FbException(r) ==
  IF r.body.has_error THEN Exception("FbException", r.status_code, r.body.error)
  ELSE Exception("KeyError", r.status_code, NoError)
ExceptionTypes == {"ConnectionError", "HTTPError", "FbException", "KeyError"}

\* requests' Response.raise_for_status.
raise_for_status(r) ==
  IF r.status_code \in 400..599 THEN HTTPError(r) ELSE NoException

\* fbarc.py 426-435: the exception raised for a response, NoException if none.
raise_for_fb_exception(r) ==
  IF r.status_code # 200
  THEN IF r.body.json THEN FbException(r) ELSE raise_for_status(r)
  ELSE raise_for_status(r)

\* What one call of _perform_http_get does with what requests.get gave: it
\* returns the document, raises, or sleeps and calls itself with try_count + 1.
Try_Flat(do, e, secs) ==
  [do |-> do, e |-> e, sleep |-> IF do = "retry" THEN get_error_delay_secs ELSE 0]
Try(do, e, secs) == [do |-> do, e |-> e, sleep |-> secs]

\* fbarc.py 798-857.
perform_http_get(r, tries) ==
  LET e == IF r.connected THEN raise_for_fb_exception(r) ELSE ConnectionError
      again == Try("retry", e, get_error_delay_secs * tries)
      raise == Try("raise", e, 0)
  IN CASE e.type = "ConnectionError" ->
            IF get_errors_limit = tries THEN raise ELSE again
       [] e.type = "HTTPError" ->
            IF e.status_code \in {408, 503, 504}
            THEN IF get_errors_limit = tries THEN raise ELSE again
            ELSE raise
       [] e.type = "FbException" ->
            IF e.is_transient \/ (e.code = 100 /\ e.subcode = 33) \/ e.code = 1
            THEN IF e.code = 1 /\ get_too_much_data_errors_limit = tries THEN raise
                 ELSE IF get_errors_limit = tries THEN raise
                 ELSE again
            ELSE raise
       [] e.type = "" -> Try("return", e, 0)
       [] OTHER -> raise

\* fbarc.py 859-917.
perform_http_post_RetryAny(r, tries) ==
  LET e == IF r.connected THEN raise_for_fb_exception(r) ELSE ConnectionError
      again == Try("retry", e, get_error_delay_secs * tries)
      raise == Try("raise", e, 0)
  IN CASE e.type = "ConnectionError" ->
            IF get_errors_limit = tries THEN raise ELSE again
       [] e.type = "HTTPError" ->
            IF e.status_code \in {408, 503, 504}
            THEN IF get_errors_limit = tries THEN raise ELSE again
            ELSE raise
       [] e.type = "FbException" ->
            IF e.code = 1 /\ get_too_much_data_errors_limit = tries THEN raise
            ELSE IF get_errors_limit = tries THEN raise
            ELSE again
       [] e.type = "" -> Try("return", e, 0)
       [] OTHER -> raise
perform_http_post(r, tries) ==
  LET e == IF r.connected THEN raise_for_fb_exception(r) ELSE ConnectionError
      again == Try("retry", e, get_error_delay_secs * tries)
      raise == Try("raise", e, 0)
  IN CASE e.type = "ConnectionError" ->
            IF get_errors_limit = tries THEN raise ELSE again
       [] e.type = "HTTPError" ->
            IF e.status_code \in {408, 503, 504}
            THEN IF get_errors_limit = tries THEN raise ELSE again
            ELSE raise
       [] e.type = "FbException" ->
            IF e.is_transient \/ (e.code = 100 /\ e.subcode = 33) \/ e.code = 1
            THEN IF e.code = 1 /\ get_too_much_data_errors_limit = tries THEN raise
                 ELSE IF get_errors_limit = tries THEN raise
                 ELSE again
            ELSE raise
       [] e.type = "" -> Try("return", e, 0)
       [] OTHER -> raise

NoneFailed == [t \in ExceptionTypes |-> 0]

\* fbarc.py 799-805 and 860-866, the optional delay.  Ages and gaps above
\* MaxAge are kept as MaxAge, which is above every delay.
MaxDelay == 45
MaxAge == MaxDelay + 2
Delays == {0, 1, MaxDelay}
None == -1
Capped(secs) == IF secs > MaxAge THEN MaxAge ELSE secs
\* The seconds a call takes up to its handler, and the seconds time.sleep
\* sleeps beyond what it was asked for.
Durations == {0, 1}
Oversleeps == {0, 1}

wait_secs_Since(delay, age) == age - delay
wait_secs(delay, age) == delay - age

\* The delay before a call and the time that goes by after last_get is
\* set: the call, and the sleep of the handler if it tries again.
RateLimit(t) ==
  \E over \in Oversleeps, d \in Durations :
    LET slept == IF last_get_age # None /\ wait_secs(delay_secs, last_get_age) > 0
                 THEN wait_secs(delay_secs, last_get_age) + over
                 ELSE 0
    IN /\ gap' = IF last_get_age = None THEN None ELSE Capped(last_get_age + slept)
       /\ last_get_age' = Capped(d + t.sleep)
       /\ delay_secs' = delay_secs

\* No request is under way.
HttpIdle ==
  /\ http_method = ""
  /\ http_pc = "idle"
  /\ try_count = 0
  /\ calls = 0
  /\ response = NoResponse
  /\ http_error = NoException
  /\ sleeps = <<>>
  /\ only_503 = TRUE
  /\ failed = NoneFailed
  /\ delay_secs = 0
  /\ last_get_age = None
  /\ gap = None

\* A caller is about to call _perform_http_get or _perform_http_post.
HttpInit ==
  /\ http_method \in {"get", "post"}
  /\ http_pc = "call"
  /\ try_count = 1
  /\ calls = 0
  /\ response = NoResponse
  /\ http_error = NoException
  /\ sleeps = <<>>
  /\ only_503 = TRUE
  /\ failed = NoneFailed
  /\ delay_secs \in Delays
  /\ last_get_age \in {None, 0, 1, MaxAge}
  /\ gap = None

\* The transport is called and the try ends as t says.
Called_PerClass(r, t) ==
  /\ calls' = calls + 1
  /\ response' = r
  /\ only_503' = (only_503 /\ r.connected /\ r.status_code = 503)
  /\ failed' = IF t.e.type = "" THEN failed ELSE [failed EXCEPT ![t.e.type] = @ + 1]
  /\ http_pc' = CASE t.do = "return" -> "returned"
                  [] t.do = "raise" -> "raised"
                  [] OTHER -> "call"
  /\ http_error' = IF t.do = "raise" THEN t.e ELSE NoException
  /\ try_count' = IF t.do = "retry" THEN failed[t.e.type] + 2 ELSE try_count
  /\ sleeps' = IF t.do = "retry" THEN Append(sleeps, t.sleep) ELSE sleeps
  /\ UNCHANGED http_method
Called(r, t) ==
  /\ calls' = calls + 1
  /\ response' = r
  /\ only_503' = (only_503 /\ r.connected /\ r.status_code = 503)
  /\ failed' = IF t.e.type = "" THEN failed ELSE [failed EXCEPT ![t.e.type] = @ + 1]
  /\ http_pc' = CASE t.do = "return" -> "returned"
                  [] t.do = "raise" -> "raised"
                  [] OTHER -> "call"
  /\ http_error' = IF t.do = "raise" THEN t.e ELSE NoException
  /\ try_count' = IF t.do = "retry" THEN try_count + 1 ELSE try_count
  /\ sleeps' = IF t.do = "retry" THEN Append(sleeps, t.sleep) ELSE sleeps
  /\ UNCHANGED http_method

\* One call of _perform_http_get, up to its return, raise or recursive call.
HttpGet ==
  /\ http_pc = "call"
  /\ http_method = "get"
  /\ \E r \in Responses :
       /\ Called(r, perform_http_get(r, try_count))
       /\ RateLimit(perform_http_get(r, try_count))
  /\ UNCHANGED <<crawl_vars, paging_vars, csv_vars, fn_vars>>

\* One call of _perform_http_post, up to its return, raise or recursive call.
HttpPost ==
  /\ http_pc = "call"
  /\ http_method = "post"
  /\ \E r \in Responses :
       /\ Called(r, perform_http_post(r, try_count))
       /\ RateLimit(perform_http_post(r, try_count))
  /\ UNCHANGED <<crawl_vars, paging_vars, csv_vars, fn_vars>>

HttpNext == HttpGet \/ HttpPost

(***************************************************************************)
(* Pagination: find_paging_links, merge_page, get_page_batch and get_page, *)
(* as get_node and get_node_batch run them on the response of a request.   *)
(***************************************************************************)
PAGE_BATCH_SIZE == 50

\* The order in which a dict of a response is iterated.
KeyOrder == <<"attachment", "comments", "cursors", "data", "feed", "id", "message",
              "metadata", "name", "next", "paging", "parent", "type">>
Keys(d) == SelectSeq(KeyOrder, LAMBDA k : k \in DOMAIN d.kv)

\* A place in a record: the keys and list indexes that lead to it.  A list
\* of a record is the same list object as long as the record lives, and it
\* only grows at its end.
Key(k) == [key |-> k, index |-> 0]
Index(i) == [key |-> "", index |-> i]

RECURSIVE At(_, _)
At(graph_fragment, path) ==
  IF path = <<>> THEN graph_fragment
  ELSE At(IF Head(path).key # "" THEN graph_fragment.kv[Head(path).key]
          ELSE graph_fragment.it[Head(path).index], Tail(path))

\* list.extend on the list at a place of a record.
RECURSIVE Extended(_, _, _)
Extended(graph_fragment, path, more) ==
  IF path = <<>> THEN Arr(graph_fragment.it \o more)
  ELSE IF Head(path).key # ""
       THEN Obj([graph_fragment.kv EXCEPT
                   ![Head(path).key] = Extended(@, Tail(path), more)])
       ELSE Arr([graph_fragment.it EXCEPT
                   ![Head(path).index] = Extended(@, Tail(path), more)])

\* A pending page: the link, and the list to extend, which is the list at a
\* place of the record of a node.
Page(page_link, node, at) == [page_link |-> page_link, node |-> node, at |-> at]

\* fbarc.py 919-950, what it returns: the (link, list) pairs of the fragment
\* at path; the items of a list are counted from offset + 1.
RECURSIVE find_paging_links(_, _, _, _)
RECURSIVE LinksOfKeys(_, _, _, _)
RECURSIVE LinksOfItems(_, _, _, _)
find_paging_links(graph_fragment, node, path, offset) ==
  IF graph_fragment.t = "dict"
  THEN (IF HasKey(graph_fragment, "paging") /\ HasKey(graph_fragment.kv["paging"], "next")
        THEN <<Page(graph_fragment.kv["paging"].kv["next"].v, node,
                    path \o <<Key("data")>>)>>
        ELSE <<>>)
       \o LinksOfKeys(graph_fragment,
                      SelectSeq(Keys(graph_fragment), LAMBDA k : k # "paging"),
                      node, path)
  ELSE IF graph_fragment.t = "list"
       THEN LinksOfItems(graph_fragment.it, node, path, offset)
       ELSE <<>>
LinksOfKeys(graph_fragment, keys, node, path) ==
  IF keys = <<>> THEN <<>>
  ELSE find_paging_links(graph_fragment.kv[Head(keys)], node,
                         path \o <<Key(Head(keys))>>, 0)
       \o LinksOfKeys(graph_fragment, Tail(keys), node, path)
LinksOfItems(values, node, path, offset) ==
  IF values = <<>> THEN <<>>
  ELSE find_paging_links(Head(values), node, path \o <<Index(offset + 1)>>, 0)
       \o LinksOfItems(Tail(values), node, path, offset + 1)

\* fbarc.py 919-950, what it does to the fragment: every 'paging' is deleted.
RECURSIVE PagingDeleted_WithNext(_)
PagingDeleted_WithNext(graph_fragment) ==
  IF graph_fragment.t = "dict"
  THEN LET kept == IF HasKey(graph_fragment, "paging")
                      /\ HasKey(graph_fragment.kv["paging"], "next")
                   THEN DOMAIN graph_fragment.kv \ {"paging"}
                   ELSE DOMAIN graph_fragment.kv
       IN Obj([k \in kept |-> PagingDeleted_WithNext(graph_fragment.kv[k])])
  ELSE IF graph_fragment.t = "list"
       THEN Arr([i \in DOMAIN graph_fragment.it |->
                   PagingDeleted_WithNext(graph_fragment.it[i])])
       ELSE graph_fragment
RECURSIVE PagingDeleted(_)
PagingDeleted(graph_fragment) ==
  IF graph_fragment.t = "dict"
  THEN Obj([k \in DOMAIN graph_fragment.kv \ {"paging"} |->
              PagingDeleted(graph_fragment.kv[k])])
  ELSE IF graph_fragment.t = "list"
       THEN Arr([i \in DOMAIN graph_fragment.it |-> PagingDeleted(graph_fragment.it[i])])
       ELSE graph_fragment

\* fbarc.py 934: the assert fails on a dict with 'paging' and without 'data'.
RECURSIVE AssertFails(_)
AssertFails(graph_fragment) ==
  IF graph_fragment.t = "dict"
  THEN \/ HasKey(graph_fragment, "paging") /\ ~HasKey(graph_fragment, "data")
       \/ \E k \in DOMAIN graph_fragment.kv \ {"paging"} :
            AssertFails(graph_fragment.kv[k])
  ELSE IF graph_fragment.t = "list"
       THEN \E i \in DOMAIN graph_fragment.it : AssertFails(graph_fragment.it[i])
       ELSE FALSE

\* fbarc.py 640-677, what it returns: the page's own next link for the same
\* list, then the links found in the page's data, which will sit behind the
\* items the list has now.
merge_page_RootNext(page_fragment, node, at, length) ==
  (IF HasKey(page_fragment, "next") THEN <<Page(page_fragment.kv["next"].v, node, at)>>
   ELSE <<>>)
  \o find_paging_links(page_fragment.kv["data"], node, at, length)
merge_page(page_fragment, node, at, length) ==
  (IF HasKey(page_fragment, "paging") /\ HasKey(page_fragment.kv["paging"], "next")
   THEN <<Page(page_fragment.kv["paging"].kv["next"].v, node, at)>>
   ELSE <<>>)
  \o find_paging_links(page_fragment.kv["data"], node, at, length)

\* fbarc.py 673-675, what it does to the record: the page's data, with its
\* 'paging' deleted by find_paging_links, is appended to the list.
Merged(record, page_fragment, at) ==
  Extended(record, at, PagingDeleted(page_fragment.kv["data"]).it)

\* The remote side of a paged fetch: what the Graph API answers for three
\* nodes and for the links of their collections.  A collection is a dict of
\* 'data' and 'paging'; 'paging' holds 'next' while pages are left.
Comment(id) == Obj([id |-> Val(id)])
Cursors == Obj([cursors |-> Val(0)])
NextPage(page_link) == Obj([cursors |-> Val(0), next |-> Val(page_link)])
Collection(data, paging) == Obj([data |-> Arr(data), paging |-> paging])
Commented(id, data, paging) ==
  Obj([id |-> Val(id), comments |-> Collection(data, paging)])

PageLinks == {1, 3, 4, 5, 6, 7}
RemotePage(page_link) ==
  CASE page_link = 1 ->
         Obj([data |-> Arr(<<Commented(4, <<Comment(8)>>, NextPage(4))>>)])
    [] page_link = 3 -> Collection(<<Comment(7)>>, Cursors)
    [] page_link = 4 -> Obj([data |-> Arr(<<Comment(9)>>)])
    [] page_link = 5 -> Collection(<<Comment(11)>>, NextPage(6))
    [] page_link = 6 -> Collection(<<Commented(12, <<>>, Cursors)>>, Cursors)
    [] page_link = 7 -> Obj([data |-> Arr(<<>>)])

PagedNodes == {1, 2, 3, 4, 5, 6, 7}
PagedNode(node) ==
  CASE node = 1 ->
         [id |-> Val(1), metadata |-> Obj([type |-> Val("page")]), name |-> Val(0),
          feed |-> Collection(<<Commented(2, <<Comment(6)>>, NextPage(3)),
                                Commented(3, <<>>, Cursors)>>, NextPage(1))]
    [] node = 2 ->
         [id |-> Val(2), metadata |-> Obj([type |-> Val("post")]),
          attachment |-> Val(0),
          comments |-> Collection(<<Comment(6)>>, NextPage(3))]
    [] node = 3 ->
         [id |-> Val(3), metadata |-> Obj([type |-> Val("post")]),
          attachment |-> Val(0),
          comments |-> Collection(<<Comment(10)>>, NextPage(5))]
    [] node = 4 ->
         [id |-> Val(4), metadata |-> Obj([type |-> Val("post")]),
          comments |-> Obj([paging |-> Cursors])]
    [] node = 5 ->
         [id |-> Val(5), metadata |-> Obj([type |-> Val("page")]), name |-> Val(0),
          feed |-> Collection(<<>>, NextPage(4))]
    [] node = 6 ->
         \* one post more than a combined page request may carry, each with
         \* a further page of comments
         [id |-> Val(6), metadata |-> Obj([type |-> Val("album")]), name |-> Val(0),
          feed |-> Obj([data |-> Arr([i \in 1..(PAGE_BATCH_SIZE + 1) |->
                                        Commented(20 + i, <<>>, NextPage(7))])])]
    [] node = 7 ->
         [id |-> Val(7), metadata |-> Obj([type |-> Val("album")]), name |-> Val(0)]

\* The answer to the request of a node: its fields, without those the
\* request omits for an error code.
NodeResponse(node, dn, omit_fields_for_error) ==
  Obj([k \in DOMAIN PagedNode(node)
             \ omit_on_error_fields_by_error_code(dn, omit_fields_for_error) |->
         PagedNode(node)[k]])

\* The calls of get_node and get_node_batch that _get_nodes makes.
PgCalls ==
  {[node_ids |-> <<1>>, definition_name |-> "page"],
   [node_ids |-> <<2>>, definition_name |-> "post"],
   [node_ids |-> <<4>>, definition_name |-> "post"],
   [node_ids |-> <<2, 3>>, definition_name |-> "post"],
   [node_ids |-> <<3, 2>>, definition_name |-> "post"],
   [node_ids |-> <<5, 1>>, definition_name |-> "page"]}

\* Calls for a record with more pending pages than PAGE_BATCH_SIZE.
PgCapCalls ==
  {[node_ids |-> <<6>>, definition_name |-> "album"],
   [node_ids |-> <<6, 7>>, definition_name |-> "album"]}

NoGraph == Val(0)
ItemGraph(dict_items, node) ==
  dict_items[CHOOSE i \in DOMAIN dict_items : dict_items[i][1] = node][2]

\* Entries of the log: get_node is called for a node, and an exception
\* leaves the try block of get_node for a node, or that of get_node_batch
\* (node 0).
GetNodeCall(node, omit_fields_for_error) ==
  [op |-> "get_node", node |-> node, omit |-> omit_fields_for_error, e |-> Ok]
Raised(node, omit_fields_for_error, e) ==
  [op |-> "raise", node |-> node, omit |-> omit_fields_for_error, e |-> e]

\* No fetch is under way.
PgIdle ==
  /\ pg_node_ids = <<>>
  /\ pg_definition_name = ""
  /\ pg_mode = ""
  /\ pg_turn = 0
  /\ pg_omit = 0
  /\ nodes_graph_dict = <<>>
  /\ pg_node_graph = NoGraph
  /\ paging_queue = <<>>
  /\ pages = <<>>
  /\ new_pages = <<>>
  /\ pg_pc = "idle"
  /\ pg_error = Ok
  /\ received = <<>>
  /\ lost = <<>>
  /\ merged = <<>>
  /\ page_batches = <<>>
  /\ get_page_calls = 0
  /\ pg_log = <<>>

\* fbarc.py 486-490: _get_nodes calls get_node for a batch of one id and
\* get_node_batch for a longer one.
PgInit ==
  /\ \E call \in PgCalls :
       /\ pg_node_ids = call.node_ids
       /\ pg_definition_name = call.definition_name
       /\ pg_mode = FetchPath(call.node_ids)
       /\ pg_turn = IF FetchPath(call.node_ids) = "get_node" THEN 1 ELSE 0
  /\ pg_omit = 0
  /\ nodes_graph_dict = <<>>
  /\ pg_node_graph = NoGraph
  /\ paging_queue = <<>>
  /\ pages = <<>>
  /\ new_pages = <<>>
  /\ pg_pc = "request"
  /\ pg_error = Ok
  /\ received = <<>>
  /\ lost = <<>>
  /\ merged = <<>>
  /\ page_batches = <<>>
  /\ get_page_calls = 0
  /\ pg_log = IF pg_mode = "get_node" THEN <<GetNodeCall(pg_node_ids[1], 0)>> ELSE <<>>

\* The same for the calls of PgCapCalls.
PgCapInit ==
  /\ \E call \in PgCapCalls :
       /\ pg_node_ids = call.node_ids
       /\ pg_definition_name = call.definition_name
       /\ pg_mode = FetchPath(call.node_ids)
       /\ pg_turn = IF FetchPath(call.node_ids) = "get_node" THEN 1 ELSE 0
  /\ pg_omit = 0
  /\ nodes_graph_dict = <<>>
  /\ pg_node_graph = NoGraph
  /\ paging_queue = <<>>
  /\ pages = <<>>
  /\ new_pages = <<>>
  /\ pg_pc = "request"
  /\ pg_error = Ok
  /\ received = <<>>
  /\ lost = <<>>
  /\ merged = <<>>
  /\ page_batches = <<>>
  /\ get_page_calls = 0
  /\ pg_log = IF pg_mode = "get_node" THEN <<GetNodeCall(pg_node_ids[1], 0)>> ELSE <<>>

PgInputs == <<pg_node_ids, pg_definition_name>>
InGetNode == pg_mode \in {"get_node", "one_at_a_time"}
NotOf(node, page_list) == SelectSeq(page_list, LAMBDA p : p.node # node)

\* fbarc.py 563: get_node gets the node again, omitting fields.
ShouldOmit_Again(e, dn, omit_fields_for_error) ==
  e.fb /\ e.code \in omit_on_error_codes(dn)
ShouldOmit(e, dn, omit_fields_for_error) ==
  e.fb /\ e.code \in omit_on_error_codes(dn) /\ omit_fields_for_error = 0

\* fbarc.py 601: get_node_batch gets its nodes one at a time.
ShouldDegrade_Always(e, dn) ==
  e.fb
ShouldDegrade(e, dn) ==
  e.fb /\ (e.code = 1 \/ e.code \in omit_on_error_codes(dn))

\* The exception e leaves the try block of get_node (fbarc.py 560-567) or of
\* get_node_batch (fbarc.py 598-607).
Handle(e) ==
  /\ pages' = <<>>
  /\ new_pages' = <<>>
  /\ paging_queue' = <<>>
  /\ pg_node_graph' = NoGraph
  /\ IF InGetNode
     THEN /\ UNCHANGED <<pg_mode, pg_turn, nodes_graph_dict>>
          /\ lost' = NotOf(pg_node_ids[pg_turn], lost)
          /\ merged' = NotOf(pg_node_ids[pg_turn], merged)
          /\ IF ShouldOmit(e, pg_definition_name, pg_omit)
             THEN /\ pg_omit' = e.code /\ pg_pc' = "request" /\ pg_error' = pg_error
                  /\ pg_log' = pg_log \o <<Raised(pg_node_ids[pg_turn], pg_omit, e),
                                           GetNodeCall(pg_node_ids[pg_turn], e.code)>>
             ELSE /\ pg_omit' = pg_omit /\ pg_pc' = "raised" /\ pg_error' = e
                  /\ pg_log' = Append(pg_log, Raised(pg_node_ids[pg_turn], pg_omit, e))
     ELSE /\ UNCHANGED <<pg_omit, nodes_graph_dict>>
          /\ lost' = <<>>
          /\ merged' = <<>>
          /\ IF ShouldDegrade(e, pg_definition_name)
             THEN /\ pg_mode' = "one_at_a_time" /\ pg_turn' = 1
                  /\ pg_pc' = "request" /\ pg_error' = pg_error
                  /\ pg_log' = pg_log \o <<Raised(0, 0, e), GetNodeCall(pg_node_ids[1], 0)>>
             ELSE /\ UNCHANGED <<pg_mode, pg_turn>>
                  /\ pg_pc' = "raised" /\ pg_error' = e
                  /\ pg_log' = Append(pg_log, Raised(0, 0, e))

AssertionError == [ok |-> FALSE, fb |-> FALSE, code |-> 0, subcode |-> 0]

\* fbarc.py 541-549: get_node posts its request and looks for paging links
\* in the answer.
PgGetNode ==
  /\ UNCHANGED pg_log
  /\ UNCHANGED <<crawl_vars, http_vars, csv_vars, fn_vars>>
  /\ UNCHANGED get_page_calls
  /\ pg_pc = "request"
  /\ InGetNode
  /\ LET node == pg_node_ids[pg_turn]
         answer == NodeResponse(node, pg_definition_name, pg_omit)
     IN /\ ~AssertFails(answer)
        /\ pg_node_graph' = PagingDeleted(answer)
        /\ paging_queue' = find_paging_links(answer, node, <<>>, 0)
        /\ received' = SetItem(received, node, answer)
  /\ pg_pc' = "drain"
  /\ UNCHANGED <<PgInputs, pg_mode, pg_turn, pg_omit, nodes_graph_dict, pages, new_pages,
                 pg_error, lost, merged, page_batches>>

\* fbarc.py 575-589: get_node_batch posts its request and looks for paging
\* links in the record of every id the answer holds.
RECURSIVE LinksOfNodes(_, _)
LinksOfNodes(node_ids, dict_items) ==
  IF node_ids = <<>> THEN <<>>
  ELSE (IF \E i \in DOMAIN dict_items : dict_items[i][1] = Head(node_ids)
        THEN find_paging_links(ItemGraph(dict_items, Head(node_ids)), Head(node_ids),
                               <<>>, 0)
        ELSE <<>>)
       \o LinksOfNodes(Tail(node_ids), dict_items)

PgGetNodeBatch ==
  /\ UNCHANGED pg_log
  /\ UNCHANGED <<crawl_vars, http_vars, csv_vars, fn_vars>>
  /\ UNCHANGED get_page_calls
  /\ pg_pc = "request"
  /\ pg_mode = "get_node_batch"
  /\ \E present \in SUBSET Range(pg_node_ids) :
       LET got == SelectSeq(pg_node_ids, LAMBDA n : n \in present)
           answer == [i \in DOMAIN got |->
                        <<got[i], NodeResponse(got[i], pg_definition_name, 0)>>]
       IN /\ \A i \in DOMAIN answer : ~AssertFails(answer[i][2])
          /\ nodes_graph_dict' = [i \in DOMAIN answer |->
                                    <<answer[i][1], PagingDeleted(answer[i][2])>>]
          /\ paging_queue' = LinksOfNodes(pg_node_ids, answer)
          /\ received' = answer
  /\ pg_pc' = "drain"
  /\ UNCHANGED <<PgInputs, pg_mode, pg_turn, pg_omit, pg_node_graph, pages, new_pages,
                 pg_error, lost, merged, page_batches>>

\* fbarc.py 934: the answer holds a 'paging' without 'data'; the assert of
\* find_paging_links fails and AssertionError leaves the fetch.
PgAssert ==
  /\ UNCHANGED <<crawl_vars, http_vars, csv_vars, fn_vars>>
  /\ UNCHANGED get_page_calls
  /\ pg_pc = "request"
  /\ InGetNode
  /\ AssertFails(NodeResponse(pg_node_ids[pg_turn], pg_definition_name, pg_omit))
  /\ pg_pc' = "raised"
  /\ pg_error' = AssertionError
  /\ pg_log' = Append(pg_log, Raised(pg_node_ids[pg_turn], pg_omit, AssertionError))
  /\ UNCHANGED <<PgInputs, pg_mode, pg_turn, pg_omit, nodes_graph_dict, pg_node_graph,
                 paging_queue, pages, new_pages, received, lost, merged, page_batches>>

\* The request of get_node or get_node_batch raises.
PgRequestFails ==
  /\ UNCHANGED <<crawl_vars, http_vars, csv_vars, fn_vars>>
  /\ UNCHANGED get_page_calls
  /\ pg_pc = "request"
  /\ \E e \in Errors : Handle(e)
  /\ UNCHANGED <<PgInputs, received, page_batches>>

\* fbarc.py 552-557 and 592-597: the pages of the next combined request.
PageCap ==
  IF pg_mode = "get_node_batch" THEN node_batch_size(pg_definition_name)
  ELSE PAGE_BATCH_SIZE
Drained ==
  IF PageCap < Len(paging_queue) THEN PageCap ELSE Len(paging_queue)

\* fbarc.py 610-617: the pages are popped and get_page_batch posts the
\* combined request, which is answered.
PgPageBatch ==
  /\ UNCHANGED pg_log
  /\ UNCHANGED <<crawl_vars, http_vars, csv_vars, fn_vars>>
  /\ UNCHANGED get_page_calls
  /\ pg_pc = "drain"
  /\ paging_queue # <<>>
  /\ pages' = SubSeq(paging_queue, 1, Drained)
  /\ paging_queue' = SubSeq(paging_queue, Drained + 1, Len(paging_queue))
  /\ new_pages' = <<>>
  /\ page_batches' = Append(page_batches, Drained)
  /\ pg_pc' = "pages"
  /\ UNCHANGED <<PgInputs, pg_mode, pg_turn, pg_omit, nodes_graph_dict, pg_node_graph,
                 pg_error, received, lost, merged>>

\* The combined request raises.
PgPageBatchFails ==
  /\ UNCHANGED <<crawl_vars, http_vars, csv_vars, fn_vars>>
  /\ UNCHANGED get_page_calls
  /\ pg_pc = "drain"
  /\ paging_queue # <<>>
  /\ page_batches' = Append(page_batches, Drained)
  /\ \E e \in Errors : Handle(e)
  /\ UNCHANGED <<PgInputs, received>>

\* The record a pending page points into.
Target(p) ==
  IF pg_mode = "get_node_batch" THEN ItemGraph(nodes_graph_dict, p.node)
  ELSE pg_node_graph

\* fbarc.py 619-629: the loop of get_page_batch goes on to the next page, or
\* returns new_pages, which the caller appends to its queue.
NextOfBatch(more) ==
  /\ pages' = Tail(pages)
  /\ IF Tail(pages) = <<>>
     THEN /\ new_pages' = <<>>
          /\ paging_queue' = paging_queue \o new_pages \o more
          /\ pg_pc' = "drain"
     ELSE /\ new_pages' = new_pages \o more
          /\ paging_queue' = paging_queue
          /\ pg_pc' = "pages"

\* merge_page on the answer for the page at the front.
MergeHead(alone) ==
  LET p == Head(pages)
      page_fragment == RemotePage(p.page_link)
  IN /\ IF pg_mode = "get_node_batch"
        THEN /\ nodes_graph_dict' =
                  SetItem(nodes_graph_dict, p.node, Merged(Target(p), page_fragment, p.at))
             /\ pg_node_graph' = pg_node_graph
        ELSE /\ pg_node_graph' = Merged(Target(p), page_fragment, p.at)
             /\ nodes_graph_dict' = nodes_graph_dict
     /\ NextOfBatch(merge_page(page_fragment, p.node, p.at, Len(At(Target(p), p.at).it)))
     /\ merged' = Append(merged, p)
     /\ get_page_calls' = get_page_calls + alone
     /\ UNCHANGED <<PgInputs, pg_mode, pg_turn, pg_omit, pg_error, received, lost,
                    page_batches>>

\* fbarc.py 620-627: the item of the page in the combined answer has code 200.
PgMergePage ==
  /\ UNCHANGED pg_log
  /\ UNCHANGED <<crawl_vars, http_vars, csv_vars, fn_vars>>
  /\ pg_pc = "pages"
  /\ MergeHead(0)

\* fbarc.py 622-625 and 631-638: the item has another code, and get_page gets
\* the page by itself.
PgGetPage ==
  /\ UNCHANGED pg_log
  /\ UNCHANGED <<crawl_vars, http_vars, csv_vars, fn_vars>>
  /\ pg_pc = "pages"
  /\ MergeHead(1)

\* fbarc.py 636-637: get_page gets FbException and ignores the page.
PgIgnorePage_Abandon ==
  /\ UNCHANGED pg_log
  /\ UNCHANGED <<crawl_vars, http_vars, csv_vars, fn_vars>>
  /\ pg_pc = "pages"
  /\ pages' = <<>>
  /\ new_pages' = <<>>
  /\ paging_queue' = paging_queue \o new_pages
  /\ pg_pc' = "drain"
  /\ lost' = Append(lost, Head(pages))
  /\ get_page_calls' = get_page_calls + 1
  /\ UNCHANGED <<PgInputs, pg_mode, pg_turn, pg_omit, nodes_graph_dict, pg_node_graph,
                 pg_error, received, merged, page_batches>>
PgIgnorePage ==
  /\ UNCHANGED pg_log
  /\ UNCHANGED <<crawl_vars, http_vars, csv_vars, fn_vars>>
  /\ pg_pc = "pages"
  /\ NextOfBatch(<<>>)
  /\ lost' = Append(lost, Head(pages))
  /\ get_page_calls' = get_page_calls + 1
  /\ UNCHANGED <<PgInputs, pg_mode, pg_turn, pg_omit, nodes_graph_dict, pg_node_graph,
                 pg_error, received, merged, page_batches>>

\* fbarc.py 634: get_page gets another exception, which leaves the fetch.
PgGetPageFails ==
  /\ pg_log' = Append(pg_log, IF InGetNode
                               THEN Raised(pg_node_ids[pg_turn], pg_omit, OtherError)
                               ELSE Raised(0, 0, OtherError))
  /\ UNCHANGED <<crawl_vars, http_vars, csv_vars, fn_vars>>
  /\ pg_pc = "pages"
  /\ pg_pc' = "raised"
  /\ pg_error' = OtherError
  /\ get_page_calls' = get_page_calls + 1
  /\ UNCHANGED <<PgInputs, pg_mode, pg_turn, pg_omit, nodes_graph_dict, pg_node_graph,
                 paging_queue, pages, new_pages, received, lost, merged, page_batches>>

\* fbarc.py 559 and 604-608: the queue of pages is empty; get_node returns the
\* record, to _get_nodes or to the loop of get_node_batch, and get_node_batch
\* returns its dict.
PgReturn_Early ==
  /\ UNCHANGED <<crawl_vars, http_vars, csv_vars, fn_vars>>
  /\ UNCHANGED get_page_calls
  /\ pg_pc = "drain"
  /\ nodes_graph_dict' =
       IF InGetNode THEN SetItem(nodes_graph_dict, pg_node_ids[pg_turn], pg_node_graph)
       ELSE nodes_graph_dict
  /\ pg_node_graph' = NoGraph
  /\ IF pg_mode = "one_at_a_time" /\ pg_turn < Len(pg_node_ids)
     THEN /\ pg_turn' = pg_turn + 1 /\ pg_pc' = "request"
          /\ pg_log' = Append(pg_log, GetNodeCall(pg_node_ids[pg_turn + 1], 0))
     ELSE /\ pg_turn' = pg_turn /\ pg_pc' = "returned"
          /\ pg_log' = pg_log
  /\ pg_omit' = 0
  /\ UNCHANGED <<PgInputs, pg_mode, paging_queue, pages, new_pages, pg_error, received,
                 lost, merged, page_batches>>
PgReturn ==
  /\ UNCHANGED <<crawl_vars, http_vars, csv_vars, fn_vars>>
  /\ UNCHANGED get_page_calls
  /\ pg_pc = "drain"
  /\ paging_queue = <<>>
  /\ nodes_graph_dict' =
       IF InGetNode THEN SetItem(nodes_graph_dict, pg_node_ids[pg_turn], pg_node_graph)
       ELSE nodes_graph_dict
  /\ pg_node_graph' = NoGraph
  /\ IF pg_mode = "one_at_a_time" /\ pg_turn < Len(pg_node_ids)
     THEN /\ pg_turn' = pg_turn + 1 /\ pg_pc' = "request"
          /\ pg_log' = Append(pg_log, GetNodeCall(pg_node_ids[pg_turn + 1], 0))
     ELSE /\ pg_turn' = pg_turn /\ pg_pc' = "returned"
          /\ pg_log' = pg_log
  /\ pg_omit' = 0
  /\ UNCHANGED <<PgInputs, pg_mode, paging_queue, pages, new_pages, pg_error, received,
                 lost, merged, page_batches>>

PgNext ==
  \/ PgGetNode \/ PgGetNodeBatch \/ PgAssert \/ PgRequestFails
  \/ PgPageBatch \/ PgPageBatchFails
  \/ PgMergePage \/ PgGetPage \/ PgIgnorePage \/ PgGetPageFails
  \/ PgReturn

\* The steps of a fetch in which every item of a combined page answer has
\* code 200.
PgCapNext ==
  \/ PgGetNode \/ PgGetNodeBatch \/ PgRequestFails
  \/ PgPageBatch \/ PgPageBatchFails
  \/ PgMergePage
  \/ PgReturn

(***************************************************************************)
(* The crawl: get_nodes, _get_nodes with its consumer print_graphs, and    *)
(* resume.                                                                 *)
(***************************************************************************)
MaxLevels == 3
MaxResumes == 1
root_node_id == 1

NoBatch == [node_ids |-> <<>>, definition_name |-> "", level |-> 0, peak |-> <<>>]
BatchTasks(b, ids) == {Task(n, b.definition_name, b.level) : n \in ids}
ItemIds(its) == {its[i][1] : i \in DOMAIN its}

\* get_nodes, up to the first next() of _get_nodes.
CrawlInit ==
  /\ graph \in DOMAIN Graphs
  /\ levels \in 0..MaxLevels
  /\ exclude_definition_names \in SUBSET DefinitionNames
  /\ root_definition_name \in DefinitionNames
  /\ node_queue = <<Task(root_node_id, root_definition_name, 1)>>
  /\ node_counter = [NoCount EXCEPT ![root_definition_name] = 1]
  /\ queued_nodes = {root_node_id}
  /\ pc = "next"
  /\ batch = NoBatch
  /\ items = <<>>
  /\ node_id = 0
  /\ node_graph = Val(0)
  /\ file = <<>>
  /\ error = ""
  /\ raised = Ok
  /\ appended = <<<<Task(root_node_id, root_definition_name, 1), 0>>>>
  /\ batches = <<>>
  /\ dropped = {}
  /\ replayed = {}
  /\ resumes = 0

Inputs == <<graph, levels, exclude_definition_names, root_definition_name>>

\* What the fetch of the batch at the front of the queue can give.
NextResults ==
  IF node_queue = <<>> THEN {}
  ELSE FetchResults(graph, node_queue_iter(node_queue).node_ids,
                    node_queue_iter(node_queue).definition_name)

\* fbarc.py 480-490: the next batch is popped and counted, then fetched.
\* fbarc.py 481: the popped ids are taken off the count of their definition
Counted_One(counter, b) ==
  [counter EXCEPT ![b.definition_name] = @ - 1]
Counted(counter, b) ==
  [counter EXCEPT ![b.definition_name] = @ - Len(b.node_ids)]

Pop ==
  LET b == node_queue_iter(node_queue)
      peak == IF b.node_queue = <<>> THEN <<>> ELSE <<Head(b.node_queue)>>
  IN /\ pc = "next"
     /\ node_queue # <<>>
     /\ node_queue' = b.node_queue
     /\ node_counter' = Counted(node_counter, b)
     /\ batch' = [node_ids |-> b.node_ids, definition_name |-> b.definition_name,
                  level |-> b.level, peak |-> peak]
     /\ batches' = Append(batches, batch')
     /\ UNCHANGED <<Inputs, queued_nodes, node_id, node_graph, file, appended, replayed,
                    resumes>>

IsUnsupportedGet(e) == e.fb /\ e.code = 100 /\ e.subcode = 33

\* The fetch returns its map of ids to records; the ids of the batch that
\* are not in it get no record.
Fetched ==
  /\ UNCHANGED <<http_vars, paging_vars, csv_vars, fn_vars>>
  /\ pc = "next"
  /\ \E res \in NextResults :
       /\ res.ok
       /\ Pop
       /\ items' = res.items
       /\ dropped' = dropped \cup
                     BatchTasks(batch', Range(batch'.node_ids) \ ItemIds(res.items))
       /\ pc' = IF res.items = <<>> THEN "next" ELSE "items"
       /\ error' = error
       /\ raised' = res.e

\* fbarc.py 509-512: the fetch raises FbException 100/33 and the handler logs
\* node_id, which a record of an earlier batch bound: the batch is skipped.
Skipped ==
  /\ UNCHANGED <<http_vars, paging_vars, csv_vars, fn_vars>>
  /\ pc = "next"
  /\ \E res \in NextResults :
       /\ ~res.ok /\ IsUnsupportedGet(res.e)
       /\ node_id # 0
       /\ Pop
       /\ items' = <<>>
       /\ dropped' = dropped \cup BatchTasks(batch', Range(batch'.node_ids))
       /\ pc' = "next"
       /\ error' = error
       /\ raised' = res.e

\* fbarc.py 509-512: the same with node_id not bound yet, which no record of
\* this _get_nodes has been looped over: the handler raises UnboundLocalError.
SkipFailed ==
  /\ UNCHANGED <<http_vars, paging_vars, csv_vars, fn_vars>>
  /\ pc = "next"
  /\ \E res \in NextResults :
       /\ ~res.ok /\ IsUnsupportedGet(res.e)
       /\ node_id = 0
       /\ Pop
       /\ items' = <<>>
       /\ dropped' = dropped \cup BatchTasks(batch', Range(batch'.node_ids))
       /\ pc' = "failed"
       /\ error' = "UnboundLocalError"
       /\ raised' = res.e

\* fbarc.py 513-514: any other exception of the fetch leaves _get_nodes.
Failed ==
  /\ UNCHANGED <<http_vars, paging_vars, csv_vars, fn_vars>>
  /\ pc = "next"
  /\ \E res \in NextResults :
       /\ ~res.ok /\ ~IsUnsupportedGet(res.e)
       /\ Pop
       /\ items' = <<>>
       /\ dropped' = dropped \cup BatchTasks(batch', Range(batch'.node_ids))
       /\ pc' = "failed"
       /\ error' = IF res.e.fb THEN "FbException" ELSE "OtherError"
       /\ raised' = res.e

\* fbarc.py 491-507: the loop binds the next record and queues the nodes
\* connected to it, up to the yield.
Discover ==
  /\ UNCHANGED <<http_vars, paging_vars, csv_vars, fn_vars>>
  /\ pc = "items"
  /\ \E q \in {Discovered([node_queue |-> node_queue, node_counter |-> node_counter,
                           queued_nodes |-> queued_nodes, appended |-> appended],
                          batch.definition_name, batch.level, Head(items)[1],
                          Head(items)[2], levels, exclude_definition_names, FALSE)} :
       /\ node_queue' = q.node_queue
       /\ node_counter' = q.node_counter
       /\ queued_nodes' = q.queued_nodes
       /\ appended' = q.appended
  /\ node_id' = Head(items)[1]
  /\ node_graph' = Head(items)[2]
  /\ items' = Tail(items)
  /\ pc' = "yield"
  /\ UNCHANGED <<Inputs, batch, file, error, raised, batches, dropped, replayed,
                 resumes>>

\* fbarc.py 508, 259-262, 1055-1056: the record is yielded and print_graphs
\* writes it to the output; the loop goes on, or the next batch is asked for.
Emit ==
  /\ UNCHANGED <<http_vars, paging_vars, csv_vars, fn_vars>>
  /\ pc = "yield"
  /\ file' = Append(file, node_graph)
  /\ pc' = IF items = <<>> THEN "next" ELSE "items"
  /\ UNCHANGED <<Inputs, node_queue, node_counter, queued_nodes, batch, items, node_id,
                 node_graph, error, raised, appended, batches, dropped, replayed, resumes>>

\* fbarc.py 524: the queue is empty and the generator ends.
Finish_Early ==
  /\ UNCHANGED <<http_vars, paging_vars, csv_vars, fn_vars>>
  /\ pc = "next"
  /\ pc' = "done"
  /\ UNCHANGED <<Inputs, node_queue, node_counter, queued_nodes, batch, items, node_id,
                 node_graph, file, error, raised, appended, batches, dropped, replayed,
                 resumes>>
Finish ==
  /\ UNCHANGED <<http_vars, paging_vars, csv_vars, fn_vars>>
  /\ pc = "next"
  /\ node_queue = <<>>
  /\ pc' = "done"
  /\ UNCHANGED <<Inputs, node_queue, node_counter, queued_nodes, batch, items, node_id,
                 node_graph, file, error, raised, appended, batches, dropped, replayed,
                 resumes>>

\* The process has ended or is ended, and resume is run on its output file
\* with the same levels and exclusions (fbarc.py 952-989): the file is
\* replayed and a new _get_nodes goes on from the queue it leaves.
Resume ==
  /\ UNCHANGED <<http_vars, paging_vars, csv_vars, fn_vars>>
  /\ resumes < MaxResumes
  /\ resumes' = resumes + 1
  /\ \E q \in {Replayed(file, levels, exclude_definition_names)} :
       /\ node_queue' = q.node_queue
       /\ node_counter' = q.node_counter
       /\ queued_nodes' = q.queued_nodes
       /\ appended' = q.appended
       /\ replayed' = {q.appended[i][1][1] : i \in DOMAIN q.appended}
                       \ QueuedIds(q.node_queue)
  /\ pc' = "next"
  /\ batch' = NoBatch
  /\ items' = <<>>
  /\ node_id' = 0
  /\ node_graph' = Val(0)
  /\ error' = ""
  /\ raised' = Ok
  /\ batches' = <<>>
  /\ dropped' = {}
  /\ UNCHANGED <<Inputs, file>>

CrawlNext ==
  \/ Fetched \/ Skipped \/ SkipFailed \/ Failed
  \/ Discover \/ Emit \/ Finish \/ Resume

\* No crawl is under way.
CrawlIdle ==
  /\ graph = 1
  /\ levels = 0
  /\ exclude_definition_names = {}
  /\ root_definition_name = ""
  /\ node_queue = <<>>
  /\ node_counter = NoCount
  /\ queued_nodes = {}
  /\ pc = "idle"
  /\ batch = NoBatch
  /\ items = <<>>
  /\ node_id = 0
  /\ node_graph = Val(0)
  /\ file = <<>>
  /\ error = ""
  /\ raised = Ok
  /\ appended = <<>>
  /\ batches = <<>>
  /\ dropped = {}
  /\ replayed = {}
  /\ resumes = 0

(***************************************************************************)
(* The CSV sink: CsvGraphOutput.  In the graphs it is given a str is        *)
(* Str(s) with s the sequence of its characters, None is Null, and a        *)
(* column name is the sequence of the pieces it is joined from.             *)
(***************************************************************************)
Null == [t |-> "None"]
Str(s) == [t |-> "str", s |-> s]
AttributeError == [t |-> "AttributeError"]

\* bool(value), as "if graph_part:" takes it
Truthy(value) ==
  CASE value.t = "None" -> FALSE
    [] value.t = "dict" -> DOMAIN value.kv # {}
    [] value.t = "list" -> value.it # <<>>
    [] value.t = "str" -> value.s # <<>>
    [] value.t = "val" -> value.v # 0

\* value.get(key): None for a key a dict has not, AttributeError for a
\* value that is no dict
Get(value, key) ==
  IF value.t # "dict" THEN AttributeError
  ELSE IF key \in DOMAIN value.kv THEN value.kv[key] ELSE Null

\* fbarc.py 1098-1100: the loop over the subfields of a path
RECURSIVE Walk(_, _)
Walk(graph_part, field) ==
  IF field = <<>> THEN graph_part
  ELSE IF graph_part = AttributeError THEN AttributeError
  ELSE IF Truthy(graph_part) THEN Walk(Get(graph_part, Head(field)), Tail(field))
  ELSE Walk(graph_part, Tail(field))

\* CsvGraphOutput._clean_value: value.replace('\n', ' ') of a str
clean_value(value) ==
  IF value.t = "str"
  THEN Str([i \in DOMAIN value.s |-> IF value.s[i] = "\n" THEN " " ELSE value.s[i]])
  ELSE value

\* CsvGraphOutput._flatten_field_name: '_'.join(field)
flatten_field_name(field) ==
  [i \in 1..(2 * Len(field) - 1) |-> IF i % 2 = 1 THEN field[(i + 1) \div 2] ELSE "_"]

\* The three forms of an entry of csv_fields: 'a', ['a', 'b'] and
\* {'name': ['a', 'b']}.
Plain(name) == [name |-> "", list |-> FALSE, field |-> <<name>>]
Path(field) == [name |-> "", list |-> TRUE, field |-> field]
Named(name, field) == [name |-> name, list |-> TRUE, field |-> field]

\* fbarc.py 1093-1103: the column name and the value of one field
ColumnName(f) ==
  IF f.name # "" THEN <<f.name>>
  ELSE IF f.list THEN flatten_field_name(f.field) ELSE f.field
ColumnValue(graph_, f) ==
  IF f.list THEN Walk(graph_, f.field) ELSE Get(graph_, f.field[1])

\* CsvGraphOutput._get_fields
get_fields(fields_) == <<Plain("id"), Path(<<"metadata", "type">>)>> \o fields_

\* CsvGraphOutput._get_fieldnames
get_fieldnames(fields_) ==
  [i \in DOMAIN get_fields(fields_) |-> ColumnName(get_fields(fields_)[i])]

\* CsvGraphOutput._get_row: the row as a function from the column names
\* to the values, a later field of a name replacing an earlier one, or
\* AttributeError
get_row(graph_, fields_) ==
  IF \E i \in DOMAIN get_fields(fields_) :
       ColumnValue(graph_, get_fields(fields_)[i]) = AttributeError
  THEN AttributeError
  ELSE [name \in Range(get_fieldnames(fields_)) |->
          clean_value(ColumnValue(graph_, get_fields(fields_)[
            CHOOSE i \in DOMAIN get_fields(fields_) :
              /\ ColumnName(get_fields(fields_)[i]) = name
              /\ \A j \in DOMAIN get_fields(fields_) :
                   ColumnName(get_fields(fields_)[j]) = name => j <= i]))]

\* The records the sink is given: each has id and metadata.type, and "a"
\* is absent or holds a value of each kind, one, two or three keys deep.
Lines == Str(<<"x", "\n", "y">>)
CsvLeaves == {Null, Obj(NoKeys), Str(<<>>), Lines, Val(0), Arr(<<>>), Arr(<<Lines>>)}
CsvRecord(kv) ==
  Obj(kv @@ [id |-> Str(<<"1">>), metadata |-> Obj([type |-> Str(<<"post">>)])])
CsvGraphs ==
  {CsvRecord(NoKeys)}
    \cup {CsvRecord([a |-> x]) : x \in CsvLeaves}
    \cup {CsvRecord([a |-> Obj([b |-> x])]) : x \in CsvLeaves}
    \cup {CsvRecord([a |-> Obj([b |-> Obj([c |-> x])])]) : x \in CsvLeaves}

\* The csv_fields a definition may declare.
CsvFields ==
  {<<Plain("a")>>,
   <<Path(<<"a", "b">>)>>,
   <<Named("n", <<"a", "b">>)>>,
   <<Path(<<"a", "b", "c">>)>>,
   <<Plain("a"), Named("n", <<"a", "b", "c">>), Path(<<"a", "b">>)>>}

CsvIdle ==
  /\ csv_graph = Null
  /\ csv_fields = <<>>
  /\ csv_pc = "idle"
  /\ csv_fieldnames = <<>>
  /\ csv_row = Null

CsvInit ==
  /\ csv_graph \in CsvGraphs
  /\ csv_fields \in CsvFields
  /\ csv_pc = "call"
  /\ csv_fieldnames = <<>>
  /\ csv_row = Null

\* fbarc.py 1074-1083, output_graph: the writer of the type is made with
\* the column names, then the row is built and written.
OutputGraph ==
  /\ csv_pc = "call"
  /\ csv_fieldnames' = get_fieldnames(csv_fields)
  /\ csv_row' = get_row(csv_graph, csv_fields)
  /\ csv_pc' = IF get_row(csv_graph, csv_fields) = AttributeError
               THEN "raised" ELSE "written"
  /\ UNCHANGED <<csv_graph, csv_fields>>
  /\ UNCHANGED <<crawl_vars, http_vars, paging_vars, fn_vars>>

CsvNext == OutputGraph

(***************************************************************************)
(* The functions of the definitions: Definition on a map of fields, the    *)
(* fields parameter of a request, and find_connected_nodes on a fragment.  *)
(* A fields parameter is the sequence of the items that are joined with    *)
(* ',': a name, or an edge with its limit and the items inside its braces. *)
(***************************************************************************)
RecursionLimit == 6

Name(name) == [name |-> name, limit |-> 0, query |-> <<>>]
Edge(edge, limit, query) == [name |-> edge, limit |-> limit, query |-> query]
Built(item_list, n) == [raised |-> FALSE, items |-> item_list, calls |-> n]
RecursionError == [raised |-> TRUE, items |-> <<>>, calls |-> 0]

\* fbarc.py 762-763: 'id' is put first unless the list holds it
WithId(item_list) ==
  IF \E i \in DOMAIN item_list : item_list[i] = Name("id") THEN item_list
  ELSE <<Name("id")>> \o item_list

\* Fbarc._prepare_field_param at the given depth of recursion: the items of
\* the parameter and the number of calls made for it, or RecursionError
\* when the calls nest deeper than the interpreter allows.
RECURSIVE prepare_field_param(_, _, _, _)
RECURSIVE EdgeParams(_, _, _)

\* fbarc.py 755-761: the loop over the edges, each with the parameter of its type
EdgeParams(dn, edge_list, depth) ==
  IF edge_list = <<>> THEN Built(<<>>, 0)
  ELSE LET edge_type == get_edge_type(dn, Head(edge_list))
           nested == prepare_field_param(edge_type, TRUE, 0, depth + 1)
           rest == EdgeParams(dn, Tail(edge_list), depth)
       IN IF nested.raised \/ rest.raised THEN RecursionError
          ELSE Built(<<Edge(Head(edge_list), edge_size(edge_type), nested.items)>>
                       \o rest.items,
                     nested.calls + rest.calls)

prepare_field_param_Fields(dn, default_only, omit_fields_for_error, depth) ==
  IF depth > RecursionLimit THEN RecursionError
  ELSE LET omit_fields == omit_on_error_fields_by_error_code(dn, omit_fields_for_error)
           names == (IF default_only THEN <<>> ELSE <<"metadata{type}">>)
                      \o default_fields(dn)
                      \o fields(dn)
           kept == SelectSeq(names, LAMBDA n : n \notin omit_fields)
           nested == EdgeParams(dn, QueryEdges(dn, default_only, omit_fields_for_error),
                                depth)
       IN IF nested.raised THEN RecursionError
          ELSE Built(WithId([i \in DOMAIN kept |-> Name(kept[i])] \o nested.items),
                     1 + nested.calls)
prepare_field_param(dn, default_only, omit_fields_for_error, depth) ==
  IF depth > RecursionLimit THEN RecursionError
  ELSE LET omit_fields == omit_on_error_fields_by_error_code(dn, omit_fields_for_error)
           names == (IF default_only THEN <<>> ELSE <<"metadata{type}">>)
                      \o default_fields(dn)
                      \o (IF default_only THEN <<>> ELSE fields(dn))
           kept == SelectSeq(names, LAMBDA n : n \notin omit_fields)
           nested == EdgeParams(dn, QueryEdges(dn, default_only, omit_fields_for_error),
                                depth)
       IN IF nested.raised THEN RecursionError
          ELSE Built(WithId([i \in DOMAIN kept |-> Name(kept[i])] \o nested.items),
                     1 + nested.calls)

\* A fragment that holds, down to the given depth, every edge of the
\* definitions that its node has, whether a query would ask for it or not.
RECURSIVE WholeNode(_, _, _, _)
WholeNode(g, id, dn, depth) ==
  LET declared == Range(EdgeList(dn, FALSE))
      has == {e \in declared : depth > 0 /\
                IF e \in CollectionEdges THEN g[id][e] # <<>> ELSE g[id][e] # 0}
      sub(e, target) == WholeNode(g, target, get_edge_type(dn, e), depth - 1)
  IN Obj(("id" :> Val(id)) @@
         [e \in has |->
            IF e \in CollectionEdges
            THEN Obj("data" :> Arr([i \in 1..Len(g[id][e]) |-> sub(e, g[id][e][i])]))
            ELSE sub(e, g[id][e])])

\* A share of a post, with a comment: the posts have authors and comments.
GraphShare ==
  [i \in 1..7 |->
     CASE i = 1 -> [Node("share") EXCEPT !.object = 2, !.comments = <<3>>]
       [] i = 2 -> [Node("post") EXCEPT !.from = 4, !.comments = <<5>>]
       [] i = 3 -> [Node("post") EXCEPT !.from = 6, !.comments = <<7>>]
       [] i = 4 -> Node("page")
       [] i = 6 -> Node("page")
       [] OTHER -> Node("post")]
WalkGraphs == <<GraphShare>> \o Graphs
MaxDepth == 3

\* The maps of fields Definition is called with: two names with every
\* choice of options.
FieldOptions ==
  {[Field EXCEPT !.omit = o, !.default = d, !.edge_type = e, !.omit_on_error = c] :
     o \in BOOLEAN, d \in BOOLEAN, e \in {"", "post"}, c \in {0, 1, 10}}
DefinitionMaps == [{"about", "feed"} -> FieldOptions]

PrepareCalls ==
  [definition_name : DOMAIN RawDefinitions, default_only : BOOLEAN,
   omit_fields_for_error : {0, 1, 10}]
WalkCalls ==
  UNION {{[definition_name |-> WalkGraphs[g][id].kind,
           graph_fragment |-> WholeNode(WalkGraphs[g], id, WalkGraphs[g][id].kind, depth),
           default_only |-> default_only] :
            id \in DOMAIN WalkGraphs[g], depth \in 0..MaxDepth, default_only \in BOOLEAN} :
         g \in DOMAIN WalkGraphs}

\* get_nodes up to its first yield, the root fetched without error
\* (fbarc.py 464-477, 479-508).  exclude_given tells whether the caller
\* passed exclude_definition_names; left out it is None, and
\* "connected_definition_name not in None" raises TypeError for the first
\* connection that is not in queued_nodes (no edge type is None, fbarc.py
\* 497-500).
TypeError == [raised |-> "TypeError", yielded |-> <<>>, node_queue |-> <<>>,
              queued_nodes |-> {}]
get_nodes(g, root_name, lv, exclude_given, exclude) ==
  LET root_graph == Record(g, root_node_id, root_name, 0)
      popped == [node_queue |-> <<>>, node_counter |-> NoCount,
                 queued_nodes |-> {root_node_id},
                 appended |-> <<<<Task(root_node_id, root_name, 1), 0>>>>]
      connected_nodes == find_connected_nodes(root_name, root_graph, FALSE)
  IN IF /\ ~exclude_given
        /\ ShouldDiscover(lv, 1)
        /\ \E i \in DOMAIN connected_nodes : connected_nodes[i][1] # root_node_id
     THEN TypeError
     ELSE \* exclude is read only when it was given, or not at all
          LET q == Discovered(popped, root_name, 1, root_node_id, root_graph, lv,
                              exclude, FALSE)
          IN [raised |-> "", yielded |-> <<root_graph>>, node_queue |-> q.node_queue,
              queued_nodes |-> q.queued_nodes]
GetNodesCalls ==
  [graph : DOMAIN Graphs, root_definition_name : DefinitionNames,
   levels : 0..MaxLevels, exclude_given : {TRUE},
   exclude_definition_names : SUBSET DefinitionNames]
    \cup [graph : DOMAIN Graphs, root_definition_name : DefinitionNames,
          levels : 0..MaxLevels, exclude_given : {FALSE},
          exclude_definition_names : {{}}]

\* discover_type: the type the metadata of the node declares (fbarc.py
\* 695-699).
discover_type(g, id) == Graphs[g][id].kind

\* graph_command (fbarc.py 226-256): the (node id, definition name) pairs
\* get_nodes is called with, in the order of the calls.  definition_name is
\* the local variable of the function as the loop reaches the id; a node id
\* that is empty (0 here) is passed over, and so is, with skip, an id whose
\* output file exists.
RECURSIVE graph_command(_, _, _, _, _)
graph_command(definition_name, node_iter, g, skip, existing) ==
  IF node_iter = <<>> THEN <<>>
  ELSE IF Head(node_iter) = 0
       THEN graph_command(definition_name, Tail(node_iter), g, skip, existing)
       ELSE LET name == IF definition_name = "discover"
                        THEN discover_type(g, Head(node_iter))
                        ELSE definition_name
            IN (IF skip /\ Head(node_iter) \in existing
                THEN <<>>
                ELSE <<<<Head(node_iter), name>>>>)
               \o graph_command(name, Tail(node_iter), g, skip, existing)
MaxRoots == 3
RootIds == {0, 1, 2, 5}
GraphCommandCalls ==
  [definition_name : {"discover"} \cup DefinitionNames,
   node_iter : UNION {[1..n -> RootIds] : n \in 0..MaxRoots},
   graph : {2}, skip : BOOLEAN, existing : {{}, {1}}]

FnIdle ==
  /\ fn_name = ""
  /\ fn_args = <<>>
  /\ fn_pc = "idle"
  /\ fn_value = <<>>

FnInit ==
  /\ \/ fn_name = "Definition" /\ fn_args \in DefinitionMaps
     \/ fn_name = "_prepare_field_param" /\ fn_args \in PrepareCalls
     \/ fn_name = "find_connected_nodes" /\ fn_args \in WalkCalls
     \/ fn_name = "get_nodes" /\ fn_args \in GetNodesCalls
     \/ fn_name = "graph_command" /\ fn_args \in GraphCommandCalls
  /\ fn_pc = "call"
  /\ fn_value = <<>>

\* fbarc.py 993-1023
CallDefinition ==
  /\ fn_pc = "call"
  /\ fn_name = "Definition"
  /\ fn_value' = Definition(fn_args)
  /\ fn_pc' = "returned"
  /\ UNCHANGED <<fn_name, fn_args>>
  /\ UNCHANGED <<crawl_vars, http_vars, paging_vars, csv_vars>>

\* fbarc.py 734-764
CallPrepareFieldParam ==
  /\ fn_pc = "call"
  /\ fn_name = "_prepare_field_param"
  /\ fn_value' = prepare_field_param(fn_args.definition_name, fn_args.default_only,
                                     fn_args.omit_fields_for_error, 1)
  /\ fn_pc' = IF fn_value'.raised THEN "raised" ELSE "returned"
  /\ UNCHANGED <<fn_name, fn_args>>
  /\ UNCHANGED <<crawl_vars, http_vars, paging_vars, csv_vars>>

\* fbarc.py 766-788
CallFindConnectedNodes ==
  /\ fn_pc = "call"
  /\ fn_name = "find_connected_nodes"
  /\ fn_value' = find_connected_nodes(fn_args.definition_name, fn_args.graph_fragment,
                                      fn_args.default_only)
  /\ fn_pc' = "returned"
  /\ UNCHANGED <<fn_name, fn_args>>
  /\ UNCHANGED <<crawl_vars, http_vars, paging_vars, csv_vars>>

\* fbarc.py 464-477
CallGetNodes ==
  /\ fn_pc = "call"
  /\ fn_name = "get_nodes"
  /\ fn_value' = get_nodes(fn_args.graph, fn_args.root_definition_name, fn_args.levels,
                           fn_args.exclude_given, fn_args.exclude_definition_names)
  /\ fn_pc' = IF fn_value'.raised # "" THEN "raised" ELSE "yield"
  /\ UNCHANGED <<fn_name, fn_args>>
  /\ UNCHANGED <<crawl_vars, http_vars, paging_vars, csv_vars>>

\* fbarc.py 226-256
CallGraphCommand ==
  /\ fn_pc = "call"
  /\ fn_name = "graph_command"
  /\ fn_value' = graph_command(fn_args.definition_name, fn_args.node_iter, fn_args.graph,
                               fn_args.skip, fn_args.existing)
  /\ fn_pc' = "returned"
  /\ UNCHANGED <<fn_name, fn_args>>
  /\ UNCHANGED <<crawl_vars, http_vars, paging_vars, csv_vars>>

FnNext ==
  \/ CallDefinition
  \/ CallPrepareFieldParam
  \/ CallFindConnectedNodes
  \/ CallGetNodes
  \/ CallGraphCommand

(***************************************************************************)
(* The specifications: a crawl, a request of the transport, and a fetch.   *)
(***************************************************************************)
vars == <<crawl_vars, http_vars, paging_vars, csv_vars, fn_vars>>
Init == CrawlInit /\ HttpIdle /\ PgIdle /\ CsvIdle /\ FnIdle
Next == CrawlNext
Spec == Init /\ [][Next]_vars

InitHttp == CrawlIdle /\ HttpInit /\ PgIdle /\ CsvIdle /\ FnIdle
SpecHttp == InitHttp /\ [][HttpNext]_vars

InitPaging == CrawlIdle /\ HttpIdle /\ PgInit /\ CsvIdle /\ FnIdle
SpecPaging == InitPaging /\ [][PgNext]_vars

InitPageCap == CrawlIdle /\ HttpIdle /\ PgCapInit /\ CsvIdle /\ FnIdle
SpecPageCap == InitPageCap /\ [][PgCapNext]_vars

InitCsv == CrawlIdle /\ HttpIdle /\ PgIdle /\ CsvInit /\ FnIdle
SpecCsv == InitCsv /\ [][CsvNext]_vars

InitFunctions == CrawlIdle /\ HttpIdle /\ PgIdle /\ CsvIdle /\ FnInit
SpecFunctions == InitFunctions /\ [][FnNext]_vars

(***************************************************************************)
(* Properties of the crawl.                                                *)
(***************************************************************************)
AppendedTasks == [i \in DOMAIN appended |-> appended[i][1]]
AppendedIds == {appended[i][1][1] : i \in DOMAIN appended}
AppendedTask(id) == appended[CHOOSE i \in DOMAIN appended : appended[i][1][1] = id][1]
FileIds == {file[i].kv["id"].v : i \in DOMAIN file}
IdOf(record) == record.kv["id"].v
\* The connections the scheduler looks at in a record of the file: those of
\* the walk with the definition the node was queued with.
ConnectedIn(record) ==
  Range(find_connected_nodes(AppendedTask(IdOf(record))[2], record, FALSE))
\* The tasks that were popped and whose record is not written yet.
InFlight ==
  BatchTasks(batch, ItemIds(items) \cup (IF pc = "yield" THEN {node_id} ELSE {}))

\* C1 (Dedup): in a run no node id is appended to the queue twice, the set of
\* queued nodes is the set of the ids appended, and every task in the queue or
\* in the popped batch is the task its id was first appended with, type and
\* level unchanged.
C1_Dedup ==
  /\ \A i, j \in DOMAIN appended : appended[i][1][1] = appended[j][1][1] => i = j
  /\ queued_nodes = AppendedIds
  /\ \A k \in DOMAIN node_queue : node_queue[k] \in Range(AppendedTasks)
  /\ InFlight \subseteq Range(AppendedTasks)

\* In a fresh crawl discovery ran on a record that refers, through a followed
\* edge that is not excluded, to a node queued with another type, and on a
\* record that refers to a node another node found before, at another level.
C1_Witness ==
  /\ resumes = 0
  /\ \E i \in DOMAIN file :
       /\ ShouldDiscover(levels, AppendedTask(IdOf(file[i]))[3])
       /\ \E c \in ConnectedIn(file[i]) :
            /\ c[2] \notin exclude_definition_names
            /\ AppendedTask(c[1])[2] # c[2]
  /\ \E i \in DOMAIN file :
       /\ ShouldDiscover(levels, AppendedTask(IdOf(file[i]))[3])
       /\ \E c \in ConnectedIn(file[i]), j \in DOMAIN appended :
            /\ c[2] \notin exclude_definition_names
            /\ appended[j][1][1] = c[1]
            /\ appended[j][2] \notin {0, IdOf(file[i])}
            /\ appended[j][1][3] # AppendedTask(IdOf(file[i]))[3] + 1

\* C2 (Level bound): with levels = L > 0 every task appended, queued, popped
\* or being emitted has 1 <= level <= L, the root has level 1, and every task
\* found in a record was appended one level below a task of a level under L;
\* in a fresh crawl and after resume.
C2_LevelBound ==
  levels > 0 =>
    /\ \A i \in DOMAIN appended :
         /\ appended[i][1][3] \in 1..levels
         /\ appended[i][2] = 0 => appended[i][1][3] = 1
         /\ appended[i][2] # 0 =>
              /\ AppendedTask(appended[i][2])[3] < levels
              /\ appended[i][1][3] = AppendedTask(appended[i][2])[3] + 1
    /\ \A k \in DOMAIN node_queue : node_queue[k][3] \in 1..levels
    /\ batch # NoBatch => batch.level \in 1..levels

\* A resumed crawl with a level bound has written the record of a task of the
\* last level, which refers to a node that is not excluded and was never
\* queued.
C2_Witness ==
  /\ levels > 0
  /\ resumes > 0
  /\ pc = "done"
  /\ \E i \in DOMAIN file :
       /\ IdOf(file[i]) \in AppendedIds \ replayed
       /\ AppendedTask(IdOf(file[i]))[3] = levels
       /\ \E c \in ConnectedIn(file[i]) :
            c[2] \notin exclude_definition_names /\ c[1] \notin queued_nodes

\* C3 (Exclusion): every task that discovery appended, live or in the replay
\* of resume, has a type outside the exclusion set, and an id enters the set
\* of queued nodes only with the append of its task.
C3_Exclusion ==
  /\ \A i \in DOMAIN appended :
       appended[i][2] # 0 => appended[i][1][2] \notin exclude_definition_names
  /\ queued_nodes = AppendedIds
  /\ \A k \in DOMAIN node_queue :
       node_queue[k][1] # AppendedTasks[1][1] =>
         node_queue[k][2] \notin exclude_definition_names

\* Discovery ran on a written record that refers through a followed edge to a
\* node of an excluded type, and that node is not queued.
C3_Witness ==
  /\ exclude_definition_names # {}
  /\ \E i \in DOMAIN file :
       /\ IdOf(file[i]) \in AppendedIds
       /\ ShouldDiscover(levels, AppendedTask(IdOf(file[i]))[3])
       /\ \E c \in ConnectedIn(file[i]) :
            c[2] \in exclude_definition_names /\ c[1] \notin queued_nodes
       /\ \E c \in ConnectedIn(file[i]) :
            c[2] \notin exclude_definition_names /\ c[1] \in queued_nodes

\* The ids of the batches yielded so far, one after the other.
RECURSIVE BatchIds(_)
BatchIds(bs) == IF bs = <<>> THEN <<>> ELSE Head(bs).node_ids \o BatchIds(Tail(bs))
\* The tasks appended that went to the queue of this run: all of them but
\* those the replay of resume resolved.
Enqueued == SelectSeq(AppendedTasks, LAMBDA task : task[1] \notin replayed)
SameRun(task, b) == task[2] = b.definition_name /\ task[3] = b.level

BetweenRecords ==
  /\ pc # "yield"
  /\ file # <<>>
  /\ root_definition_name = file[1].kv["metadata"].kv["type"].v

C9_EmitBeforeDiscovery_Claimed ==
  \A i \in DOMAIN appended : appended[i][2] # 0 => appended[i][2] \in FileIds

\* C9 amended: the connections discovered in a record are appended to the
\* queue and inserted into the set of queued nodes before the record is
\* handed to the sinks, and the record is handed to the sinks before the
\* discovery of any other record: when a record is about to be written, and
\* for every record written in this run, each connection of it that
\* discovery does not drop is queued, and every node in whose record a task
\* was found is written or is the one about to be written.
C9_DiscoveryBeforeEmit ==
  /\ (pc = "yield" /\ ShouldDiscover(levels, batch.level)) =>
         \A c \in Range(find_connected_nodes(batch.definition_name, node_graph, FALSE)) :
           c[2] \notin exclude_definition_names => c[1] \in queued_nodes
  /\ \A i \in DOMAIN appended :
       appended[i][2] # 0 =>
         appended[i][2] \in FileIds \/ (pc = "yield" /\ appended[i][2] = node_id)

\* A record is about to be written and a task found in it is in the queue
\* already.
C9_Witness ==
  /\ pc = "yield"
  /\ node_id \notin FileIds
  /\ \E k \in DOMAIN node_queue, i \in DOMAIN appended :
       appended[i] = <<node_queue[k], node_id>>

\* C10 (Unsupported-request skip): a fetch that failed with code 100 and
\* subcode 33 never ends the run, the fetch of the root included.
C10_SkipContinues ==
  IsUnsupportedGet(raised) => pc # "failed"

(***************************************************************************)
(* Properties of the transport.                                            *)
(***************************************************************************)
Ended == http_pc \in {"returned", "raised"}

\* C6 (Retry ceiling): a request whose every response is a 503 makes exactly
\* get_errors_limit calls and then ends with the error; a request ends with
\* the document and no error exactly at its first response with status 200,
\* after as many calls as tries.
C6_RetryCeiling ==
  /\ only_503 => calls <= get_errors_limit
  /\ (Ended /\ only_503) => (http_pc = "raised" /\ calls = get_errors_limit)
  /\ (response.status_code = 200) <=> (http_pc = "returned")
  /\ http_pc = "returned" => (http_error = NoException /\ calls = try_count)

(***************************************************************************)
(* Properties of the pagination.                                           *)
(***************************************************************************)
\* The items of a collection on the remote side: those of the page at hand,
\* then those of the pages its next links lead to, one page after the other.
RECURSIVE ChainData(_)
ChainData(page_fragment) ==
  page_fragment.kv["data"].it
    \o (IF HasKey(page_fragment, "paging") /\ HasKey(page_fragment.kv["paging"], "next")
        THEN ChainData(RemotePage(page_fragment.kv["paging"].kv["next"].v))
        ELSE <<>>)

\* A fragment of an answer with every collection in it, at any depth, read to
\* its end: 'data' holds the items of all its pages in page order, and no
\* 'paging' is left.
RECURSIVE Resolved(_)
Resolved(graph_fragment) ==
  IF graph_fragment.t = "dict"
  THEN Obj([k \in DOMAIN graph_fragment.kv \ {"paging"} |->
              IF k = "data" /\ HasKey(graph_fragment, "paging")
              THEN Resolved(Arr(ChainData(graph_fragment)))
              ELSE Resolved(graph_fragment.kv[k])])
  ELSE IF graph_fragment.t = "list"
       THEN Arr([i \in DOMAIN graph_fragment.it |-> Resolved(graph_fragment.it[i])])
       ELSE graph_fragment

RECURSIVE HasPaging(_)
HasPaging(graph_fragment) ==
  IF graph_fragment.t = "dict"
  THEN \/ "paging" \in DOMAIN graph_fragment.kv
       \/ \E k \in DOMAIN graph_fragment.kv : HasPaging(graph_fragment.kv[k])
  ELSE IF graph_fragment.t = "list"
       THEN \E i \in DOMAIN graph_fragment.it : HasPaging(graph_fragment.it[i])
       ELSE FALSE

Returned(node) == \E i \in DOMAIN nodes_graph_dict : nodes_graph_dict[i][1] = node
LostOf(node) == {i \in DOMAIN lost : lost[i].node = node}
MergedLinks == {merged[i].page_link : i \in DOMAIN merged}

\* C7 (Pagination merge): when get_node or get_node_batch returns, every
\* list of a returned record whose pages were all answered holds the data of
\* its first page followed by the data of every page of its chain of next
\* links, in page order, nothing lost, doubled or moved; this holds for the
\* lists at every depth, those that arrived inside merged pages included.
C7_PaginationMerge ==
  pg_pc = "returned" =>
    \A i \in DOMAIN nodes_graph_dict :
      LostOf(nodes_graph_dict[i][1]) = {} =>
        nodes_graph_dict[i][2] = Resolved(ItemGraph(received, nodes_graph_dict[i][1]))

\* get_node returned the record of node 1, whose feed came as [2, 3] with a
\* next link to a page [4] without a further link: the list holds 2, 3, 4,
\* and the comments of 2 and of 4 were merged from their own second pages,
\* one of the pages fetched by itself.
C7_Witness ==
  /\ pg_pc = "returned"
  /\ pg_mode = "get_node"
  /\ pg_node_ids = <<1>>
  /\ lost = <<>>
  /\ MergedLinks = {1, 3, 4}
  /\ get_page_calls > 0
  /\ [i \in 1..3 |->
        ItemGraph(nodes_graph_dict, 1).kv["feed"].kv["data"].it[i].kv["id"].v]
       = <<2, 3, 4>>

\* C8 (No paging key): when get_node or get_node_batch returns, no returned
\* record holds a 'paging' key at any depth, whatever pages were merged or
\* ignored, after omission retries and after one-at-a-time fetches too.
C8_NoPaging ==
  pg_pc = "returned" =>
    \A i \in DOMAIN nodes_graph_dict : ~HasPaging(nodes_graph_dict[i][2])

\* get_node_batch returned the records of two nodes whose answers held
\* 'paging' with a next link; a page whose own 'paging' has no next link and
\* a page whose data holds a 'paging' without next link were merged.
C8_Witness ==
  /\ pg_pc = "returned"
  /\ pg_mode = "get_node_batch"
  /\ Len(nodes_graph_dict) = 2
  /\ \A i \in DOMAIN received : HasPaging(received[i][2])
  /\ {3, 6} \subseteq MergedLinks
  /\ HasPaging(RemotePage(6).kv["data"])

\* The exception has an entry in the omit-on-error table of the definition.
InTable(e) == e.fb /\ e.code \in omit_on_error_codes(pg_definition_name)
OmittedFields == omit_on_error_fields_by_error_code(pg_definition_name, pg_omit)

\* C11 (Omission retry): an exception that leaves the try block of get_node
\* with a code of the omit-on-error table, in a call that omits nothing, is
\* followed at once by one call of get_node for the same node that omits for
\* that code, and the answer to that call lacks the fields of the code; any
\* other exception (of the call that omits, with any code, or with a code
\* that is not in the table) ends the fetch with that exception, and no call
\* of get_node omits fields without such an exception right before it.
C11_OmissionRetry ==
  /\ \A i \in DOMAIN pg_log :
       (pg_log[i].op = "raise" /\ pg_log[i].node # 0) =>
         IF InTable(pg_log[i].e) /\ pg_log[i].omit = 0
         THEN /\ i < Len(pg_log)
              /\ pg_log[i + 1] = GetNodeCall(pg_log[i].node, pg_log[i].e.code)
         ELSE /\ i = Len(pg_log)
              /\ pg_pc = "raised"
              /\ pg_error = pg_log[i].e
  /\ \A i \in DOMAIN pg_log :
       (pg_log[i].op = "get_node" /\ pg_log[i].omit # 0) =>
         /\ i > 1
         /\ pg_log[i - 1].op = "raise"
         /\ pg_log[i - 1].node = pg_log[i].node
         /\ pg_log[i - 1].omit = 0
         /\ pg_log[i - 1].e.code = pg_log[i].omit
  /\ (InGetNode /\ pg_pc \in {"drain", "pages"}) =>
       DOMAIN ItemGraph(received, pg_node_ids[pg_turn]).kv
         = DOMAIN PagedNode(pg_node_ids[pg_turn]) \ OmittedFields

\* get_node failed in its pagination with a code of the table, got the node
\* again without the fields of that code, and the second call failed with a
\* code of the table too, which ended the fetch.
C11_Witness ==
  /\ pg_mode = "get_node"
  /\ pg_pc = "raised"
  /\ Len(pg_log) = 4
  /\ page_batches # <<>>
  /\ InTable(pg_log[2].e)
  /\ OmittedFields \cap DOMAIN PagedNode(pg_node_ids[1]) # {}
  /\ InTable(pg_log[4].e)
  /\ pg_log[4].e # pg_log[2].e

\* The calls of get_node that omit nothing, in the order they were made.
PlainCalls == SelectSeq(pg_log, LAMBDA l : l.op = "get_node" /\ l.omit = 0)
InBatch == pg_mode \in {"get_node_batch", "one_at_a_time"}

\* C12 (Batch degradation): in get_node_batch, an FbException of the request
\* or of its pagination with code 1 or a code of the omit-on-error table is
\* followed at once by calls of get_node, omitting nothing, for the ids of the
\* batch in batch order, and the dict that get_node_batch returns then holds
\* a record for every id; with any other exception get_node is never called
\* and the exception ends get_node_batch; get_node is not called without
\* such an exception before.
C12_BatchDegradation ==
  InBatch =>
    /\ \A i \in DOMAIN pg_log :
         (pg_log[i].op = "raise" /\ pg_log[i].node = 0) =>
           /\ i = 1
           /\ IF pg_log[i].e.fb /\ (pg_log[i].e.code = 1 \/ InTable(pg_log[i].e))
              THEN /\ Len(pg_log) > 1
                   /\ pg_log[2] = GetNodeCall(pg_node_ids[1], 0)
                   /\ Len(PlainCalls) <= Len(pg_node_ids)
                   /\ \A k \in DOMAIN PlainCalls : PlainCalls[k].node = pg_node_ids[k]
                   /\ pg_pc = "returned" =>
                        /\ Len(PlainCalls) = Len(pg_node_ids)
                        /\ \A k \in DOMAIN pg_node_ids : Returned(pg_node_ids[k])
              ELSE /\ pg_log = <<pg_log[i]>>
                   /\ pg_pc = "raised"
                   /\ pg_error = pg_log[i].e
    /\ (\E i \in DOMAIN pg_log : pg_log[i].op = "get_node") =>
         /\ pg_log[1].op = "raise"
         /\ pg_log[1].node = 0

\* The pagination of a batch of two failed with code 1 after a combined page
\* request, both ids were fetched with get_node, and get_node_batch returned.
C12_Witness ==
  /\ pg_mode = "one_at_a_time"
  /\ pg_pc = "returned"
  /\ pg_node_ids = <<5, 1>>
  /\ pg_log[1] = Raised(0, 0, FbError(1, 0))
  /\ ~InTable(FbError(1, 0))
  /\ page_batches[1] = 2
  /\ Len(PlainCalls) = 2

(***************************************************************************)
(* Properties of the transport's retries.                                  *)
(***************************************************************************)
\* The exception is of a class the transport retries.
Retried(e) ==
  \/ e.type = "ConnectionError"
  \/ e.type = "HTTPError" /\ e.status_code \in {408, 503, 504}
  \/ e.type = "FbException"
       /\ (e.is_transient \/ (e.code = 100 /\ e.subcode = 33) \/ e.code = 1)
TooMuchData(e) == e.type = "FbException" /\ e.code = 1
FailedCalls ==
  failed["ConnectionError"] + failed["HTTPError"] + failed["FbException"]
    + failed["KeyError"]

\* C13 as claimed (attempt counts are tracked independently per error class):
\* an exception of a retried class leaves the request only when the failures
\* of its own class have used up the ceiling, the failures of the other
\* classes not counting against it.
C13_IndependentCounts_Claimed ==
  (http_pc = "raised" /\ Retried(http_error)) =>
    failed[http_error.type] >=
      (IF TooMuchData(http_error) THEN get_too_much_data_errors_limit
       ELSE get_errors_limit)

\* C13 (attempt counts are shared by the error classes): the one try_count of
\* a request counts the failures of every class together, so that an
\* exception of a retried class leaves the request when the failures of all
\* classes together reach get_errors_limit (for code 1, when they are
\* get_too_much_data_errors_limit too), however few of them are of its own
\* class.
C13_SharedCount ==
  /\ http_pc = "call" => try_count = FailedCalls + 1
  /\ (http_pc = "raised" /\ Retried(http_error)) =>
       /\ try_count = FailedCalls
       /\ IF TooMuchData(http_error)
          THEN FailedCalls \in {get_too_much_data_errors_limit, get_errors_limit}
          ELSE FailedCalls = get_errors_limit

\* A retryable HTTP status ends the request at the tenth call, after calls
\* that failed with connection errors and with transient protocol errors:
\* one failure of its own class used up the ceiling.
C13_Witness ==
  /\ http_pc = "raised"
  /\ http_error.type = "HTTPError"
  /\ http_error.status_code = 503
  /\ failed["HTTPError"] = 1
  /\ failed["ConnectionError"] > 0
  /\ failed["FbException"] > 0
  /\ calls = get_errors_limit

\* C14 (Lower ceiling for code=1): an FbException with code 1 that answers a
\* call made when get_too_much_data_errors_limit or more attempts have been
\* made for the request, that call included, is not retried: it leaves the
\* request, whatever the earlier attempts failed with.
C14_LowerCeiling ==
  (/\ calls >= get_too_much_data_errors_limit
   /\ response.connected
   /\ TooMuchData(raise_for_fb_exception(response))) =>
    (http_pc = "raised" /\ TooMuchData(http_error))

\* The exception is a protocol error or an HTTP error status that the
\* transport does not retry.
Permanent(e) ==
  \/ e.type = "FbException"
       /\ ~e.is_transient /\ ~(e.code = 100 /\ e.subcode = 33) /\ e.code # 1
  \/ e.type = "HTTPError" /\ e.status_code \notin {408, 503, 504}

\* C15 (Permanent errors are not retried): when a call is answered with an
\* FbException that is not transient, not 100/33 and not code 1, or with an
\* HTTPError whose status is not 408, 503 or 504, that exception leaves the
\* request after this one call, at whichever attempt it was, and no sleep
\* follows the call: the request has slept once per earlier call only.
C15_PermanentNotRetried ==
  (/\ calls > 0
   /\ response.connected
   /\ Permanent(raise_for_fb_exception(response))) =>
    /\ http_pc = "raised"
    /\ http_error = raise_for_fb_exception(response)
    /\ try_count = calls
    /\ Len(sleeps) = calls - 1

\* The third call of a request, after two retried failures, is answered with
\* the permanent code 190, which leaves the request.
C15_Witness ==
  /\ http_pc = "raised"
  /\ calls = 3
  /\ Len(sleeps) = 2
  /\ http_error.type = "FbException"
  /\ http_error.code = 190
  /\ Permanent(http_error)

(***************************************************************************)
(* Properties of the pages that fail.                                      *)
(***************************************************************************)
\* The items of a collection read to the end of its chain of next links, or
\* up to the first link of the chain that is among the dropped ones.
RECURSIVE ChainDataBut(_, _)
ChainDataBut(page_fragment, cut) ==
  page_fragment.kv["data"].it
    \o (IF /\ HasKey(page_fragment, "paging")
           /\ HasKey(page_fragment.kv["paging"], "next")
           /\ page_fragment.kv["paging"].kv["next"].v \notin cut
        THEN ChainDataBut(RemotePage(page_fragment.kv["paging"].kv["next"].v), cut)
        ELSE <<>>)

\* A fragment with every collection read as far as the cut links allow,
\* and no 'paging' left.
RECURSIVE ResolvedBut(_, _)
ResolvedBut(graph_fragment, cut) ==
  IF graph_fragment.t = "dict"
  THEN Obj([k \in DOMAIN graph_fragment.kv \ {"paging"} |->
              IF k = "data" /\ HasKey(graph_fragment, "paging")
              THEN ResolvedBut(Arr(ChainDataBut(graph_fragment, cut)), cut)
              ELSE ResolvedBut(graph_fragment.kv[k], cut)])
  ELSE IF graph_fragment.t = "list"
       THEN Arr([i \in DOMAIN graph_fragment.it |->
                   ResolvedBut(graph_fragment.it[i], cut)])
       ELSE graph_fragment

LostLinks(node) == {lost[i].page_link : i \in LostOf(node)}

\* What get_node or get_node_batch returns when pages were dropped: every
\* record is returned, each list holds what it held when its page was
\* dropped, and every other list is read to its end.
DroppedPagesOnly ==
  pg_pc = "returned" =>
    /\ \A i \in DOMAIN received : Returned(received[i][1])
    /\ \A i \in DOMAIN nodes_graph_dict :
         nodes_graph_dict[i][2] =
           ResolvedBut(ItemGraph(received, nodes_graph_dict[i][1]),
                       LostLinks(nodes_graph_dict[i][1]))

\* C16 as claimed (Page failure is tolerated, for any failure class): a page
\* that fails when fetched in isolation is dropped with its list unchanged,
\* the other pages are still resolved and the record is returned; no
\* exception leaves the fetch while the pages of a combined request are
\* gone through.
C16_AnyFailureClass_Claimed ==
  /\ DroppedPagesOnly
  /\ Len(lost) <= get_page_calls
  /\ pg_pc = "raised" => pages = <<>>

\* C16 (Page failure is tolerated, for protocol errors): a page whose item
\* fails in a combined request is fetched once by get_page; when that fetch
\* ends in FbException the page is dropped with its list unchanged, the
\* other pages are still resolved and the record is returned; any other
\* exception of that fetch leaves the fetch of the node or batch.
C16_PageFailureTolerated ==
  /\ DroppedPagesOnly
  /\ Len(lost) <= get_page_calls
  /\ (pg_pc = "raised" /\ pages # <<>>) =>
       (~pg_error.fb /\ get_page_calls > 0)

\* get_node returned the record of node 1: the second page of its feed was
\* dropped after a fetch by itself, so the feed holds its first page only,
\* and the second page of the comments of post 2 was merged.
C16_Witness ==
  /\ pg_pc = "returned"
  /\ pg_mode = "get_node"
  /\ pg_node_ids = <<1>>
  /\ LostLinks(1) = {1}
  /\ MergedLinks = {3}
  /\ Len(ItemGraph(nodes_graph_dict, 1).kv["feed"].kv["data"].it) = 2
  /\ Len(ItemGraph(nodes_graph_dict, 1).kv["feed"].kv["data"].it[1]
           .kv["comments"].kv["data"].it) = 2

\* C17 (Page-batch cap): no combined page request, of get_node or of
\* get_node_batch, carries more than PAGE_BATCH_SIZE pages, whatever the
\* node_batch_size of the definition.
C17_PageBatchCap ==
  \A i \in DOMAIN page_batches : page_batches[i] <= PAGE_BATCH_SIZE

\* C18 (Resume rejects an unusable checkpoint): when a run that resume
\* started on an empty file has ended, it has ended in ResumeError, and no
\* batch was fetched for it (nothing was appended: the file is still empty).
C18_ResumeRejects ==
  (resumes > 0 /\ file = <<>> /\ pc \in {"done", "failed"}) =>
    (pc = "failed" /\ error = "ResumeError" /\ batches = <<>>)

(***************************************************************************)
(* Properties of the records that are returned.                            *)
(***************************************************************************)
\* The next links a fragment holds, at any depth.
RECURSIVE NextLinks(_)
NextLinks(graph_fragment) ==
  IF graph_fragment.t = "dict"
  THEN (IF /\ HasKey(graph_fragment, "paging")
           /\ HasKey(graph_fragment.kv["paging"], "next")
        THEN {graph_fragment.kv["paging"].kv["next"].v}
        ELSE {})
       \cup UNION {NextLinks(graph_fragment.kv[k]) :
                    k \in DOMAIN graph_fragment.kv \ {"paging"}}
  ELSE IF graph_fragment.t = "list"
       THEN UNION {NextLinks(graph_fragment.it[i]) : i \in DOMAIN graph_fragment.it}
       ELSE {}

MergedLinksOf(node) == {merged[i].page_link : i \in {j \in DOMAIN merged : merged[j].node = node}}

\* The continuations found for a record: those of its answer and those of
\* the pages merged into it.
FoundLinks(node) ==
  NextLinks(ItemGraph(received, node))
    \cup UNION {NextLinks(RemotePage(page_link)) : page_link \in MergedLinksOf(node)}

\* C19 (No partial records): when get_node or get_node_batch returns its
\* records to _get_nodes, which hands them to the sinks, the queue of pending
\* pages is empty, no combined request is half gone through, and every
\* continuation found in a record of the call, in its answer or in a page
\* merged into it, was merged or dropped; for a batch this holds of all its
\* records at the one return that hands them over.
C19_NoPartialRecords ==
  pg_pc = "returned" =>
    /\ paging_queue = <<>>
    /\ pages = <<>>
    /\ new_pages = <<>>
    /\ \A i \in DOMAIN nodes_graph_dict :
         FoundLinks(nodes_graph_dict[i][1])
           \subseteq MergedLinksOf(nodes_graph_dict[i][1])
                        \cup LostLinks(nodes_graph_dict[i][1])

\* get_node_batch returned two records: the comments of 3 were read through
\* two further pages, the second found in the first, and the further page of
\* the comments of 2 was dropped.
C19_Witness ==
  /\ pg_pc = "returned"
  /\ pg_mode = "get_node_batch"
  /\ pg_node_ids = <<3, 2>>
  /\ Len(nodes_graph_dict) = 2
  /\ MergedLinksOf(3) = {5, 6}
  /\ LostLinks(2) = {3}
  /\ Len(page_batches) = 2

\* C20 (Rate limit): the time at which a call of _perform_http_get or
\* _perform_http_post sets last_get, right before its request, is at least
\* delay_secs after the time the call before it did, whether that was a
\* call of an earlier request or the try before this one.
C20_RateLimit ==
  gap # None => gap >= delay_secs

\* A second try follows the first after its sleep of 30 seconds, which is
\* less than delay_secs: the call waited for the rest.
C20_Witness ==
  /\ calls = 2
  /\ sleeps[1] = get_error_delay_secs
  /\ delay_secs > get_error_delay_secs
  /\ gap # None
  /\ gap >= delay_secs

(***************************************************************************)
(* Properties of the order of the crawl.                                   *)
(***************************************************************************)
QueueLevels == [i \in DOMAIN node_queue |-> node_queue[i][3]]
NonDecreasing(seq) == \A i, j \in DOMAIN seq : i < j => seq[i] <= seq[j]
BatchLevels == [i \in DOMAIN batches |-> batches[i].level]

\* The queue and the batches popped so far are in the order of a
\* breadth-first walk: the levels of the queue do not decrease from front to
\* back and its last level is at most one above its first, the levels of
\* the batches popped, and with them those of the records emitted, never
\* decrease, and nothing in the queue is below the level of the batch popped
\* last or more than one above it.
BfsOrder ==
  /\ NonDecreasing(QueueLevels)
  /\ node_queue # <<>> => QueueLevels[Len(node_queue)] <= QueueLevels[1] + 1
  /\ NonDecreasing(BatchLevels)
  /\ batches # <<>> =>
       \A i \in DOMAIN node_queue :
         /\ QueueLevels[i] >= batches[Len(batches)].level
         /\ QueueLevels[i] <= batches[Len(batches)].level + 1

Closed ==
  \A i \in DOMAIN file :
    \A c \in ConnectedIn(file[i]) :
      c[2] \notin exclude_definition_names => c[1] \in queued_nodes

\* What is left to do in a crawl, as a number: the resumes that may still
\* come, then the nodes of the graph never queued, then the tasks in the
\* queue (counted twice) and the records still to loop over, then the yield
\* at hand, then the end of the generator.
Rank ==
  ((((MaxResumes - resumes) * (Len(Graphs[graph]) + 1)
       + Cardinality(DOMAIN Graphs[graph] \ queued_nodes)) * (3 * Len(Graphs[graph]) + 1)
      + 2 * Len(node_queue) + Len(items)) * 2
     + (IF pc = "yield" THEN 1 ELSE 0)) * 2
    + (IF pc \in {"done", "failed"} THEN 0 ELSE 1)

\* A crawl that has not ended can take its next step once its request is
\* answered: a batch to pop has an outcome, a loop has a record.
NotStuck ==
  /\ pc \in {"next", "items", "yield", "done", "failed"}
  /\ (pc = "next" /\ node_queue # <<>>) => NextResults # {}
  /\ pc = "items" => items # <<>>

\* C22 (Natural termination): with levels = 0 every step of the crawl takes
\* it nearer to its end (no node is queued twice, every pop shortens the
\* queue), and a crawl that has not ended is never stuck, so that on a
\* finite graph it ends; when it ends without an exception the queue is
\* empty, and every id that a record it emitted refers to through a followed
\* edge of a type that is not excluded is in the set of queued nodes.
C22_NaturalTermination ==
  /\ [][levels = 0 => (Rank' < Rank /\ Rank' >= 0)]_vars
  /\ [](levels = 0 => NotStuck)
  /\ []((levels = 0 /\ pc = "done") => (node_queue = <<>> /\ error = "" /\ Closed))

\* A crawl with levels = 0 has ended with an empty queue after it emitted
\* the records of six nodes, down to level 5.
C22_Witness ==
  /\ levels = 0
  /\ pc = "done"
  /\ node_queue = <<>>
  /\ Len(file) = 6
  /\ Len(batches) >= 5
  /\ dropped = {}

(***************************************************************************)
(* Properties of the CSV sink.                                             *)
(***************************************************************************)
\* The record holds every key of the path, each in the dict the key
\* before it leads to.
RECURSIVE Held(_, _)
Held(value, field) ==
  \/ field = <<>>
  \/ /\ value.t = "dict"
     /\ Head(field) \in DOMAIN value.kv
     /\ Held(value.kv[Head(field)], Tail(field))

RECURSIVE ValueAt(_, _)
ValueAt(value, field) ==
  IF field = <<>> THEN value ELSE ValueAt(value.kv[Head(field)], Tail(field))

\* A key of the path before its last is not held.
MissesIntermediate(value, field) ==
  \E n \in 1..(Len(field) - 1) : ~Held(value, SubSeq(field, 1, n))

\* C23 (CSV projection): once output_graph has left, every nested path of
\* the projection of which the record misses an intermediate key has given
\* None in its column and no error was raised, and every nested path the
\* record holds in full has given the value at its end, newlines replaced.
C23_CsvProjection ==
  csv_pc \in {"written", "raised"} =>
    \A i \in DOMAIN csv_fields :
      csv_fields[i].list =>
        /\ MissesIntermediate(csv_graph, csv_fields[i].field) =>
             /\ csv_pc = "written"
             /\ csv_row[ColumnName(csv_fields[i])] = Null
        /\ Held(csv_graph, csv_fields[i].field) =>
             /\ csv_pc = "written"
             /\ csv_row[ColumnName(csv_fields[i])] =
                  clean_value(ValueAt(csv_graph, csv_fields[i].field))

(***************************************************************************)
(* Properties of the choice between get_node and get_node_batch.           *)
(***************************************************************************)
\* C24 (path selection): a call with one id is in get_node from its start,
\* with nothing omitted, and never in get_node_batch; a call with two or
\* more ids starts in get_node_batch, which posts its request once, and
\* get_node is called for its ids only after an exception that degrades
\* (code 1 or a code of the omit table) has left the batch.
C24_PathSelection ==
  /\ [](Len(pg_node_ids) = 1 =>
          /\ pg_mode = "get_node"
          /\ pg_log # <<>>
          /\ pg_log[1] = GetNodeCall(pg_node_ids[1], 0))
  /\ [](Len(pg_node_ids) >= 2 =>
          /\ pg_mode \in {"get_node_batch", "one_at_a_time"}
          /\ pg_mode = "get_node_batch" =>
               \A i \in DOMAIN pg_log : pg_log[i].op # "get_node"
          /\ pg_mode = "one_at_a_time" =>
               /\ pg_log[1].op = "raise"
               /\ pg_log[1].node = 0
               /\ pg_log[1].e.fb
               /\ \/ pg_log[1].e.code = 1
                  \/ pg_log[1].e.code \in omit_on_error_codes(pg_definition_name))
  /\ [][(pg_mode = "get_node_batch" /\ pg_pc # "request") =>
          (pg_pc' = "request" => pg_mode' = "one_at_a_time")]_vars
C24_Witness ==
  /\ pg_node_ids = <<2, 3>>
  /\ pg_mode = "one_at_a_time"
  /\ pg_pc = "returned"
  /\ pg_log = <<Raised(0, 0, FbError(1, 0)), GetNodeCall(2, 0), GetNodeCall(3, 0)>>

(***************************************************************************)
(* Properties of the definitions, the field queries and the walk.          *)
(***************************************************************************)
Omitted(map) == {n \in DOMAIN map : map[n].omit}
NameSets(d) ==
  <<Range(d.default_fields), Range(d.fields), Range(d.default_edges), Range(d.edges)>>

\* C25 (definition partition): in the Definition made of a map of fields
\* no name is in two of default_fields, fields, default_edges and edges or
\* twice in one, together they hold the names that are not marked omit and
\* no others, a name is in default_edges or edges exactly when it has an
\* edge_type, and a name marked omit is in none of them and in no set of
\* omit_on_error_fields_by_error_code.
C25_DefinitionPartition ==
  (fn_name = "Definition" /\ fn_pc = "returned") =>
    /\ \A i, j \in 1..4 : i # j => NameSets(fn_value)[i] \cap NameSets(fn_value)[j] = {}
    /\ Len(fn_value.default_fields) + Len(fn_value.fields) + Len(fn_value.default_edges)
         + Len(fn_value.edges) = Cardinality(DOMAIN fn_args \ Omitted(fn_args))
    /\ UNION Range(NameSets(fn_value)) = DOMAIN fn_args \ Omitted(fn_args)
    /\ \A n \in DOMAIN fn_args \ Omitted(fn_args) :
         (n \in NameSets(fn_value)[3] \cup NameSets(fn_value)[4])
           <=> fn_args[n].edge_type # ""
    /\ \A n \in Omitted(fn_args) :
         \A code \in DOMAIN fn_value.omit_on_error_fields_by_error_code :
           n \notin fn_value.omit_on_error_fields_by_error_code[code]
C25_Witness ==
  /\ fn_name = "Definition"
  /\ fn_pc = "returned"
  /\ fn_args["about"].omit /\ fn_args["about"].omit_on_error = 1
  /\ fn_args["about"].edge_type = "post"
  /\ fn_args["feed"].edge_type = "post" /\ fn_args["feed"].default
  /\ fn_args["feed"].omit_on_error = 1
  /\ fn_value.default_edges = <<"feed">>
  /\ fn_value.omit_on_error_fields_by_error_code[1] = {"feed"}

IsEdgeItem(item) == item.query # <<>>
ItemNames(item_list, edge_items) ==
  {item_list[i].name : i \in {j \in DOMAIN item_list : IsEdgeItem(item_list[j]) = edge_items}}

\* The items are a query of the defaults of the definition and nothing
\* else, and so are the items inside each of its edges.
RECURSIVE DefaultsOnly(_, _)
DefaultsOnly(item_list, dn) ==
  /\ ItemNames(item_list, FALSE) = {"id"} \cup Range(default_fields(dn))
  /\ ItemNames(item_list, TRUE) = Range(default_edges(dn))
  /\ \A i \in DOMAIN item_list :
       IsEdgeItem(item_list[i]) =>
         DefaultsOnly(item_list[i].query, get_edge_type(dn, item_list[i].name))

\* The fragment without what its nested records hold under the edges that
\* are not default edges of their type.
RECURSIVE StripNested(_, _, _)
StripEdge(value, dn) ==
  IF HasKey(value, "data")
  THEN Obj("data" :> Arr([i \in DOMAIN value.kv["data"].it |->
                            StripNested(value.kv["data"].it[i], dn, TRUE)]))
  ELSE StripNested(value, dn, TRUE)
StripNested(graph_fragment, dn, nested) ==
  Obj([k \in DOMAIN graph_fragment.kv \ (IF nested THEN Range(edges(dn)) ELSE {}) |->
         IF k \in Range(EdgeList(dn, FALSE))
         THEN StripEdge(graph_fragment.kv[k], get_edge_type(dn, k))
         ELSE graph_fragment.kv[k]])

\* C26 (nested edge queries use defaults only): in a fields parameter that
\* was built, the items inside the braces of every edge are id, the default
\* fields of the type of the edge and its default edges, with no
\* metadata{type}, no other field and no other edge, and so at every depth;
\* and what find_connected_nodes returns for a fragment does not depend on
\* what the nested records hold under edges that are not default edges.
C26_NestedDefaultsOnly ==
  /\ (fn_name = "_prepare_field_param" /\ fn_pc = "returned") =>
       \A i \in DOMAIN fn_value.items :
         IsEdgeItem(fn_value.items[i]) =>
           DefaultsOnly(fn_value.items[i].query,
                        get_edge_type(fn_args.definition_name, fn_value.items[i].name))
  /\ (fn_name = "find_connected_nodes" /\ fn_pc = "returned") =>
       fn_value = find_connected_nodes(
                    fn_args.definition_name,
                    StripNested(fn_args.graph_fragment, fn_args.definition_name, FALSE),
                    fn_args.default_only)
C26_Witness ==
  /\ fn_name = "_prepare_field_param"
  /\ fn_pc = "returned"
  /\ fn_args.definition_name = "share"
  /\ ~fn_args.default_only
  /\ \E i \in DOMAIN fn_value.items :
       fn_value.items[i] =
         Edge("comments", 2,
              <<Name("id"), Name("message"),
                Edge("from", 3, <<Name("id"), Name("name")>>)>>)
C26_WalkWitness ==
  /\ fn_name = "find_connected_nodes"
  /\ fn_pc = "returned"
  /\ fn_args.definition_name = "share"
  /\ ~fn_args.default_only
  /\ fn_args.graph_fragment = WholeNode(GraphShare, 1, "share", 3)
  /\ fn_value = <<<<3, "post">>, <<6, "page">>>>
  /\ StripNested(fn_args.graph_fragment, "share", FALSE) # fn_args.graph_fragment

\* C27 (query building terminates): for every definition of the set, those
\* with an edge to their own type or to a type with an edge back included,
\* _prepare_field_param returns: its calls never nest until the
\* interpreter ends them with RecursionError.
C27_QueryBuildingTerminates ==
  fn_name = "_prepare_field_param" => fn_pc # "raised"

\* Every id a JSON value holds, at any depth.
RECURSIVE IdsOf(_)
IdsOf(value) ==
  CASE value.t = "dict" ->
         (IF "id" \in DOMAIN value.kv THEN {value.kv["id"].v} ELSE {})
           \cup UNION {IdsOf(value.kv[k]) : k \in DOMAIN value.kv \ {"id"}}
    [] value.t = "list" -> UNION {IdsOf(value.it[i]) : i \in DOMAIN value.it}
    [] OTHER -> {}

\* The fragment without its edges of follow_edge False and what is below
\* them, at every depth.
RECURSIVE WithoutNotFollowed(_, _)
WithoutNotFollowedEdge(value, dn) ==
  IF HasKey(value, "data")
  THEN Obj("data" :> Arr([i \in DOMAIN value.kv["data"].it |->
                            WithoutNotFollowed(value.kv["data"].it[i], dn)]))
  ELSE WithoutNotFollowed(value, dn)
WithoutNotFollowed(graph_fragment, dn) ==
  LET declared == Range(EdgeList(dn, FALSE))
      cut == {k \in declared : ~definition_map(dn)[k].follow_edge}
  IN Obj([k \in DOMAIN graph_fragment.kv \ cut |->
            IF k \in declared
            THEN WithoutNotFollowedEdge(graph_fragment.kv[k], get_edge_type(dn, k))
            ELSE graph_fragment.kv[k]])

\* C28 (non-followed edges are never traversed): every id that
\* find_connected_nodes returns for a fragment is held by the fragment
\* outside its edges of follow_edge False, so an id that is only under such
\* an edge, or nested below one, is not returned.
C28_NotFollowed ==
  (fn_name = "find_connected_nodes" /\ fn_pc = "returned") =>
    \A i \in DOMAIN fn_value :
      fn_value[i][1] \in
        IdsOf(WithoutNotFollowed(fn_args.graph_fragment, fn_args.definition_name))
C28_Witness ==
  /\ fn_name = "find_connected_nodes"
  /\ fn_pc = "returned"
  /\ fn_args.definition_name = "share"
  /\ ~fn_args.default_only
  /\ fn_args.graph_fragment = WholeNode(GraphShare, 1, "share", 3)
  /\ {2, 4, 5} \subseteq IdsOf(fn_args.graph_fragment.kv["object"])
  /\ \A i \in DOMAIN fn_value : fn_value[i][1] \notin {2, 4, 5}
  /\ fn_value # <<>>

(***************************************************************************)
(* Properties of the count of the queued nodes.                            *)
(***************************************************************************)
QueuedOf(definition_name) ==
  Cardinality({i \in DOMAIN node_queue : node_queue[i][2] = definition_name})

\* C29 (pending-count invariant): once a batch is popped and taken off the
\* count, after every discovery, and in the queue and the count that resume
\* makes of a file, node_counter holds for every definition the number of
\* its tasks in node_queue, and no count is below 0.
C29_PendingCount ==
  \A dn \in DOMAIN node_counter :
    /\ node_counter[dn] = QueuedOf(dn)
    /\ node_counter[dn] >= 0
C29_Witness ==
  /\ resumes = 1
  /\ pc = "next"
  /\ node_counter["post"] >= 2
  /\ node_counter["page"] >= 1
  /\ Len(batches) >= 1

(***************************************************************************)
(* Properties of the attempts of one request.                              *)
(***************************************************************************)
\* C30 (global attempt bound): whatever the calls of one request meet, in
\* any order (no connection, status 408, 503 or 504, transient errors of the
\* API), requests.get or requests.post is called at most get_errors_limit
\* times for it, and the sleep after the k-th call that failed is
\* get_error_delay_secs * k.
C30_AttemptBound ==
  /\ calls <= get_errors_limit
  /\ Len(sleeps) < get_errors_limit
  /\ \A k \in DOMAIN sleeps : sleeps[k] = get_error_delay_secs * k
C30_Witness ==
  /\ http_pc = "raised"
  /\ calls = get_errors_limit
  /\ Len(sleeps) = get_errors_limit - 1
  /\ sleeps[9] = 270
  /\ failed.ConnectionError >= 1
  /\ failed.HTTPError >= 1
  /\ failed.FbException >= 1

(***************************************************************************)
(* Properties of the skip in a batch that is fetched one node at a time.   *)
(***************************************************************************)
\* C31 (skip granularity in a degraded batch): when get_node_batch gets its
\* nodes one at a time and get_node fails for one of them with code 100 and
\* subcode 33, get_node_batch does not end with that exception: it goes on
\* and returns the records of the other ids, which are then emitted.
C31_SkipGranularity ==
  (pg_mode = "one_at_a_time" /\ IsUnsupportedGet(pg_error)) => pg_pc # "raised"


\* C32 (no duplicate emission across resume): the queue that resume rebuilds
\* from the file holds exactly the visited ids without a record in the file,
\* each once, and no two records of the file, written by the original run or
\* by the continued run, have the same node id.
C32_JustResumed == resumes >= 1 /\ batches = <<>> /\ pc = "next"
C32_NoDuplicateAcrossResume ==
  /\ \A i, j \in DOMAIN file : IdOf(file[i]) = IdOf(file[j]) => i = j
  /\ C32_JustResumed =>
       /\ QueuedIds(node_queue) = queued_nodes \ FileIds
       /\ Len(node_queue) = Cardinality(QueuedIds(node_queue))
\* A run was resumed with records in its file and tasks left, and the
\* continued run has written further records and come to its end.
C32_Witness ==
  /\ resumes >= 1 /\ pc = "done"
  /\ replayed # {} /\ FileIds \ replayed # {}
  /\ Cardinality(FileIds) >= 3


\* C33 (level assignment of nested discoveries): every task ever enqueued is
\* the root at level 1 or was found in the record of a task at level l and
\* enqueued at level l + 1, whether the record's node points to it itself or
\* it lies deeper inside the record; the queue holds no other task.
C33_Targets(id) ==
  Range(Graphs[graph][id].feed) \cup Range(Graphs[graph][id].comments)
    \cup {Graphs[graph][id].from, Graphs[graph][id].object, Graphs[graph][id].parent}
C33_LevelAssignment ==
  /\ \A i \in DOMAIN appended :
       IF appended[i][2] = 0 THEN appended[i][1][3] = 1
       ELSE \E j \in DOMAIN appended :
              /\ appended[j][1][1] = appended[i][2]
              /\ appended[i][1][3] = appended[j][1][3] + 1
  /\ \A k \in DOMAIN node_queue : \E i \in DOMAIN appended : appended[i][1] = node_queue[k]
\* A task found nested in a record (its id is no target of an edge of the
\* record's node) of a task below the root has been enqueued and fetched.
C33_Witness ==
  \E i \in DOMAIN appended :
    /\ appended[i][2] # 0 /\ appended[i][1][3] >= 3
    /\ appended[i][1][1] \notin C33_Targets(appended[i][2])
    /\ appended[i][1][1] \in FileIds


\* C34 (exclusion default): get_nodes called without exclude_definition_names
\* does, up to its first yield, what the call with an empty exclusion set
\* does: the same record is yielded, the same connections are enqueued and
\* nothing is raised.
C34_ExclusionDefault ==
  (fn_name = "get_nodes" /\ fn_pc # "call" /\ ~fn_args.exclude_given) =>
    fn_value = get_nodes(fn_args.graph, fn_args.root_definition_name, fn_args.levels,
                         TRUE, {})


\* C35 (retryable status does not depend on the body): a request leaves with
\* an exception after a response with status 408, 503 or 504 only at the
\* ceiling of get_errors_limit calls and only with the HTTPError of that
\* status, whether or not the body of the response is JSON.
C35_RetryableStatus ==
  (http_pc = "raised" /\ response.connected /\ response.status_code \in {408, 503, 504}) =>
    (calls = get_errors_limit /\ http_error.type = "HTTPError")


\* C36 (discover mode over several roots): graph_command called with the
\* definition name 'discover' calls get_nodes for every root with the type
\* discover_type gives for that root.
C36_DiscoverPerRoot ==
  (fn_name = "graph_command" /\ fn_pc = "returned" /\ fn_args.definition_name = "discover") =>
    \A i \in DOMAIN fn_value :
      fn_value[i][2] = discover_type(fn_args.graph, fn_value[i][1])

====
